---- MODULE Spec2Model ----
(***************************************************************************)
(* Model of the CourseMonitorClient report agent: key lifecycle,           *)
(* challenge-response authentication, report submission, remote command    *)
(* dispatch and the periodic scheduler.                                    *)
(*                                                                         *)
(* The repository carries two versions of ReporterCore                     *)
(* (src/src/core/reporter-core.js lines 1-438 and 439-965) and two         *)
(* versions of Commands (src/unnamed/part_001, src/unnamed/part_002).      *)
(* coreVariant and cmdVariant select which version a behaviour runs.       *)
(***************************************************************************)
EXTENDS Integers, Sequences, FiniteSets, TLC

\* ---------------------------------------------------------------- bounds
MaxInFlight == 2      \* slots for report cycles in flight at once
MaxCycles   == 3      \* report cycles started by autoReport in one run
MaxRegen    == 2      \* key regenerations followed inside one authenticate call
MaxReentry  == 1      \* recursive re-entries of reportOnce that are followed
MaxPosts    == 3      \* report POSTs followed within one sendReport call
MaxFaults   == 1      \* file-system writes that fail in one run
MaxCallers  == 2      \* calls of handleModuleCommand running at once

Slots == 1..MaxInFlight
Callers == 1..MaxCallers

\* ------------------------------------------------------------- constants
NoKey    == 0         \* config.keyPair == null / key file absent
NoChal   == 0         \* no challenge

ModuleIds == {"basicTodos", "todoFilters", "userManagement"}

VARIABLES
  coreVariant,  \* "auto"  : reporter-core.js 1-438  (authenticate regenerates, sendReport resubmits)
                \* "manual": reporter-core.js 439-965 (authenticate throws, sendReport pre-fetches a challenge)
  cmdVariant,   \* "manual": part_001 reportOnce, "auto": part_002 reportOnce
  \* ---- persisted local state
  diskKeyPair,  \* config.json keyPair: NoKey or the key pair it names
  pubFile,      \* public_key.pem : NoKey (absent) or the key pair its content belongs to
  privFile,     \* private_key.pem: NoKey (absent) or the key pair its content belongs to
  privLocked,   \* private_key.pem exists but its permissions let the agent neither read nor write it
  modFile,      \* test-modules.json: [state: "ok" | "missing" | "corrupt", cfg: id -> active]
  \* ---- process memory
  modActive,    \* TestModules[id].active
  lastTestResults, \* StudentAPI.lastTestResults
  \* ---- environment
  slow,         \* a report cycle can take longer than the report interval
  apiPasses,    \* the test cases the API under test passes
  server,       \* the answers the server gives: [chal, verify, report, cmds], each a set
  faults,       \* file-system writes that have failed so far
  started,      \* report cycles started so far
  intervalSet,  \* autoReport has installed its timer
  \* ---- report cycles
  fr,           \* fr[c]: the locals of the report cycle running in slot c
  ob,           \* ob[c]: what has been observed of that cycle so far
  \* ---- StudentAPI operations followed statement by statement
  testRun,      \* a call of StudentAPI.runCustomTests
  cleanRun,     \* a call of CommandHandler.cleanData
  payload,      \* a response put through truncateResponseData
  \* ---- TestModuleManager and CommandHandler operations followed on their own
  modRead,      \* a call of TestModuleManager.getModulesConfig
  resetRun,     \* two RESET_KEYS commands handled one after the other
  act,          \* act[i]: the locals of the i-th running call of handleModuleCommand
  \* ---- the process
  stopped       \* the process has exited

\* fr[c] has the fields
\*   pc       position of the cycle
\*   cfg      the cycle's config object: its keyPair field
\*   ret      where generateAndSaveKeyPair returns to
\*   genKey   key pair produced by the running generateAndSaveKeyPair
\*   privKey  private key read by the running authenticate
\*   chal     challenge held by the running authenticate / sendReport
\*   nchal    challenges the server has issued to this cycle
\*   auth     authData returned by authenticate, or NoAuth
\*   report   reportData, or NoReport
\*   err      exception being propagated, or "none"
\*   tryCtx   innermost try of reportOnce around the running code:
\*            "auth_catch", "outer_catch" or "escape" (none)
\*   response data of the successful report POST, which reportOnce returns
\*   handled  value returned by handleServerCommands: "none", "true", "false", "threw"
\* ob[c] has the fields
\*   aRegens      key regenerations inside the running authenticate call
\*   onlyRereg    every verify request of that call was answered requiresReregistration
\*   verifyOk     the last verify request of the cycle was accepted
\*   posts        answers to the report POSTs of the running sendReport call, in order,
\*                by class: "ok", "stale", "reject", "net"
\*   sendResult   "none", "ok", "fail": how sendReport returned
\*   handlerCalls invocations of handleServerCommands in the cycle
\*   cmd          response.command of the cycle's successful report POST
\*   cycGens      key pairs generated in the cycle
\*   firstAuthErr the error the first authenticate of the cycle ended with
\*   reentries    recursive re-entries of reportOnce in this externally triggered call
\*   ioFailed     a file write failed during the cycle

keys   == <<diskKeyPair, pubFile, privFile>>
mods   == <<modFile, modActive, lastTestResults>>
sched  == <<started, intervalSet>>
\* what no step of a report cycle changes
managerOps == <<modRead, resetRun, act>>
env    == <<coreVariant, cmdVariant, slow, apiPasses, server, privLocked, testRun, cleanRun,
            payload, managerOps, stopped>>
\* what no step of a StudentAPI operation changes
agent  == <<coreVariant, cmdVariant, slow, server, diskKeyPair, pubFile, privFile,
            privLocked, modFile, faults, started, intervalSet, fr, ob, stopped>>
vars   == <<coreVariant, cmdVariant, diskKeyPair, pubFile, privFile, privLocked, modFile,
            modActive, lastTestResults, slow, apiPasses, server, faults, started,
            intervalSet, fr, ob, testRun, cleanRun, payload, modRead, resetRun, act,
            stopped>>

NoAuth   == [challenge |-> NoChal, sigKey |-> NoKey, sigChal |-> NoChal]

\* r with the fields of ch replaced
Upd(r, ch) == [k \in DOMAIN r |-> IF k \in DOMAIN ch THEN ch[k] ELSE r[k]]

\* crypto sign(privateKey, challenge): the signature is determined by both
Sign(key, c) == [sigKey |-> key, sigChal |-> c]

\* fs.readFile(privateKeyFile, 'utf8') succeeds: the file is there and the
\* agent may read it
\* (ReadableAlways is a read that never fails.)
ReadableAlways(file, locked) == TRUE

Readable(file, locked) == file # NoKey /\ ~locked

\* ------------------------------------------------------------ exceptions
\* An exception is named by where it was made.  Msg(e) is the set of the
\* phrases the checks of reportOnce look for that e.message contains.
\*   keypair_not_found        '未找到密钥对'
\*   key_file_missing         '密钥文件不存在'
\*   private_key_file_missing '私钥文件不存在'
\*   not_registered_on_server '未在服务器上注册公钥'
\*   server_reset_keys        '服务器已重置密钥'
\*   contact_teacher          '联系教师重置您的公钥'
Msg(e) ==
  CASE e = "E_NoKeyPair"         -> {"keypair_not_found"}
    [] e = "E_KeyFileUnreadable" -> {"key_file_missing"}
    [] e = "E_ServerResetKeys"   -> {"server_reset_keys"}
    [] e = "E_NotRegistered"     -> {"not_registered_on_server"}
    [] e = "E_ContactTeacher"    -> {"contact_teacher"}
    [] OTHER                     -> {}

Includes(e, phrase) == phrase \in Msg(e)

\* error.response?.data?.requiresReregistration: only an axios error of a
\* verify request answered with requiresReregistration carries it
HasRereg(e) == e = "E_AxVerify_rereg"

\* error.response?.data?.requiresAuth: only an axios error of a report POST
\* whose body carries requiresAuth
RequiresAuth(e) == e \in {"E_AxReport_stale", "E_AxReport_notreg",
                          "E_AxReport_badsig", "E_AxReport_authreq"}

\* ------------------------------------------------- the server's answers
VerifyAnswers == {"ok", "rereg", "notreg", "badsig", "other", "net"}
ChalAnswers   == {"ok", "empty", "net"}
\* report POST rejections: stale = requiresAuth with a fresh challenge;
\* notreg, badsig, authreq = requiresAuth without a challenge; other = error
\* body without requiresAuth; net = no response
ReportErrors  == {"stale", "notreg", "badsig", "authreq", "other", "net"}
CommandNames  == {"ACTIVATE_MODULE", "RUN_TEST", "CLEAN_DATA", "RESET_KEYS", "UNKNOWN"}
\* params.moduleId as the server sends it: a compiled-in module, a module
\* the client does not have, or no moduleId
ParamModuleIds == {"todoFilters", "ghostModule", "absent"}
NoCommand == [command |-> "none", moduleId |-> "absent", active |-> TRUE]
\* the bodies of a successful report POST that carry commands from cmds
ResponsesWith(cmds) ==
  {NoCommand}
  \cup [command : cmds \cap {"ACTIVATE_MODULE"}, moduleId : ParamModuleIds, active : BOOLEAN]
  \cup [command : cmds \ {"ACTIVATE_MODULE"}, moduleId : {"absent"}, active : {TRUE}]

\* a server that may give any answer to any request
AnyServer ==
  [chal |-> ChalAnswers, verify |-> VerifyAnswers, report |-> ReportErrors,
   cmds |-> CommandNames]
\* a server that accepts everything and issues no commands
HealthyServer ==
  [chal |-> {"ok"}, verify |-> {"ok"}, report |-> {}, cmds |-> {}]
\* a server that may have lost the client's public key
ForgetfulServer ==
  [chal |-> {"ok"}, verify |-> {"ok", "rereg"}, report |-> {}, cmds |-> {}]
\* a server whose report endpoint keeps asking for a new proof
DemandingServer ==
  [chal |-> {"ok"}, verify |-> {"ok"}, report |-> {"stale"}, cmds |-> {}]

\* ------------------------------------------- ReporterCore.authenticate
\* What authenticate does with a failed verify request.
\* (AuthOnVerifyErrorLenient is an authenticate that would hand out the
\* proof although the server answered the verify request with an error.)
AuthOnVerifyErrorLenient(variant, kind) ==
  [act |-> "return_proof", err |-> "none"]

AuthOnVerifyError(variant, kind) ==
  IF variant = "auto"
  THEN CASE kind = "rereg" -> [act |-> "regen", err |-> "none"]
         [] kind = "net"   -> [act |-> "throw", err |-> "E_Net"]
         [] kind = "notreg"-> [act |-> "throw", err |-> "E_AxVerify_notreg"]
         [] kind = "badsig"-> [act |-> "throw", err |-> "E_AxVerify_badsig"]
         [] OTHER          -> [act |-> "throw", err |-> "E_AxVerify_other"]
  ELSE CASE kind = "rereg" -> [act |-> "throw", err |-> "E_ServerResetKeys"]
         [] kind = "notreg"-> [act |-> "throw", err |-> "E_NotRegistered"]
         [] kind = "badsig"-> [act |-> "throw", err |-> "E_ContactTeacher"]
         [] kind = "net"   -> [act |-> "throw", err |-> "E_Net"]
         [] OTHER          -> [act |-> "throw", err |-> "E_AxVerify_other"]

\* ------------------------------------------- Commands.reportOnce
\* The catch around the first authenticate of reportOnce.
ReportOnceAuthCatch(variant, e) ==
  IF variant = "manual"
  THEN CASE Includes(e, "not_registered_on_server") -> "return"
         [] Includes(e, "server_reset_keys")
            \/ Includes(e, "contact_teacher")        -> "return"
         [] Includes(e, "keypair_not_found")
            \/ Includes(e, "key_file_missing")       -> "regen_return"
         [] OTHER                                    -> "rethrow"
  ELSE CASE HasRereg(e)                              -> "reset_regen_reauth"
         [] Includes(e, "keypair_not_found")
            \/ Includes(e, "private_key_file_missing") -> "regen_reauth"
         [] OTHER                                    -> "rethrow"

\* The outer catch of reportOnce.
ReportOnceOuterCatch(variant, e) ==
  IF ~RequiresAuth(e) THEN "log"
  ELSE IF variant = "manual" /\ e \in {"E_AxReport_notreg", "E_AxReport_badsig"}
       THEN "advise"
       ELSE "prompt"

\* the outer catch only logs, whatever it caught: reportOnce then returns
\* undefined
\* (OuterCatchRethrows is a catch that throws the error on.)
OuterCatchRethrows(e) == e

OuterCatchEnds(e) == "none"

\* if (response.command) in reportOnce
\* (ShouldHandleAlways is a reportOnce without that test.)
ShouldHandleAlways(resp) == TRUE

ShouldHandle(resp) == resp.command # "none"

\* ------------------------------------------- ReporterCore.sendReport
\* error.response.data.requiresAuth && error.response.data.challenge
\* (IsStaleProofAnyAuth is that test without its second conjunct.)
IsStaleProofAnyAuth(kind) == kind \in {"stale", "notreg", "badsig", "authreq"}

IsStaleProof(kind) == kind = "stale"

\* What sendReport does with the rejection of its attempt-th report POST.
\* (SendReportOnErrorUnbounded is a sendReport that answers every stale
\* proof, not only the first, by signing and submitting again.)
SendReportOnErrorUnbounded(variant, attempt, kind) ==
  IF kind = "stale" THEN [act |-> "resign", err |-> "none"]
                    ELSE [act |-> "throw", err |-> "E_Data"]

SendReportOnError(variant, attempt, kind) ==
  IF variant = "auto"
  THEN IF attempt = 1
       THEN CASE IsStaleProof(kind) -> [act |-> "resign", err |-> "none"]
              [] kind = "net"   -> [act |-> "throw", err |-> "E_Net"]
              [] OTHER          -> [act |-> "throw", err |-> "E_Data"]
       ELSE CASE kind = "net"    -> [act |-> "throw", err |-> "E_Net"]
              [] kind = "stale"  -> [act |-> "throw", err |-> "E_AxReport_stale"]
              [] kind = "notreg" -> [act |-> "throw", err |-> "E_AxReport_notreg"]
              [] kind = "badsig" -> [act |-> "throw", err |-> "E_AxReport_badsig"]
              [] kind = "authreq"-> [act |-> "throw", err |-> "E_AxReport_authreq"]
              [] OTHER           -> [act |-> "throw", err |-> "E_AxReport_other"]
  ELSE CASE kind = "notreg" -> [act |-> "throw", err |-> "E_NotRegistered"]
         [] kind = "badsig" -> [act |-> "throw", err |-> "E_ContactTeacher"]
         [] kind = "stale"  -> [act |-> "throw", err |-> "E_ChallengeFailed"]
         [] kind = "net"    -> [act |-> "throw", err |-> "E_Net"]
         [] OTHER           -> [act |-> "throw", err |-> "E_ServerMsg"]

\* ------------------------------------------- CommandHandler
\* the branch of handleServerCommands a command name selects
\* (CommandBranchRunsTests is a handler that runs the tests for a name it
\* does not know.)
CommandBranchRunsTests(command) ==
  CASE command = "ACTIVATE_MODULE" -> "module"
    [] command = "CLEAN_DATA"      -> "clean"
    [] command = "RESET_KEYS"      -> "reset"
    [] OTHER                       -> "tests"

CommandBranch(command) ==
  CASE command = "ACTIVATE_MODULE" -> "module"
    [] command = "RUN_TEST"        -> "tests"
    [] command = "CLEAN_DATA"      -> "clean"
    [] command = "RESET_KEYS"      -> "reset"
    [] OTHER                       -> "unknown"

\* command-handler.js imports TestModuleManager only: the name ConfigManager
\* used by the RESET_KEYS branch is unbound in that module.
\* (ConfigManagerBound is a command-handler.js that imports ConfigManager.)
ConfigManagerBound == TRUE

ConfigManagerImported == FALSE

\* handleServerCommands: the try/catch around the dispatch turns whatever
\* the dispatched operation threw into false.
\* (HandlerReturnNoCatch is a handleServerCommands without the try/catch.)
HandlerReturnNoCatch(opResult) ==
  IF opResult = "throw" THEN "threw" ELSE opResult

HandlerReturn(opResult) ==
  IF opResult = "throw" THEN "false" ELSE opResult


\* ------------------------------------------- TestModuleManager
\* if (!moduleId) in handleModuleCommand
\* (MissingModuleIdIgnored is a handleModuleCommand without that test.)
MissingModuleIdIgnored(moduleId) == FALSE

MissingModuleId(moduleId) == moduleId = "absent"

DefaultModules ==
  [m \in ModuleIds |-> m \in {"basicTodos", "todoFilters"}]

EmptyCfg == [m \in {} |-> TRUE]

\* { ...base, ...over }
Merge(base, over) ==
  [k \in (DOMAIN base) \cup (DOMAIN over) |->
     IF k \in DOMAIN over THEN over[k] ELSE base[k]]

\* getModulesConfig, after init(): defaults overlaid with the parsed file,
\* the defaults alone when the file cannot be read or parsed
\* (GetModulesConfigFileOnly is a getModulesConfig that returns the parsed
\* file as it is.)
GetModulesConfigFileOnly(file) ==
  IF file.state = "ok" THEN file.cfg ELSE DefaultModules

GetModulesConfig(file) ==
  IF file.state = "ok" THEN Merge(DefaultModules, file.cfg) ELSE DefaultModules

\* init(): write the defaults when the file is not there; the write may fail
InitOutcomes(file) ==
  IF file.state = "missing"
  THEN {file, [state |-> "ok", cfg |-> DefaultModules]}
  ELSE {file}

\* activateTestModule: only a compiled-in module has a flag to set
\* (ActivateTestModuleNoop is an activateTestModule that sets nothing.)
ActivateTestModuleNoop(flags, moduleId, active) == flags

ActivateTestModule(flags, moduleId, active) ==
  IF moduleId \in DOMAIN flags THEN [flags EXCEPT ![moduleId] = active] ELSE flags

\* initModuleStatus: the flags after activateTestModule has been called
\* for every entry of getModulesConfig()
InitModuleStatus(file, flags) ==
  [m \in DOMAIN flags |->
     IF m \in DOMAIN GetModulesConfig(file) THEN GetModulesConfig(file)[m] ELSE flags[m]]

\* ------------------------------------------- truncateResponseData
\* A JSON value is [t |-> tag, v |-> content]: "null", "num" (a number),
\* "str" (the sequence of its characters, a character outside ASCII named
\* by its code point), "arr" (the sequence of its items), "obj" (a function
\* from its keys to values).
MaxLength     == 5000     \* maxLength = 5000
MaxArrayItems == 100      \* maxArrayItems = 100

JNull     == [t |-> "null", v |-> 0]
JNum(n)   == [t |-> "num", v |-> n]
JStr(cs)  == [t |-> "str", v |-> cs]
JArr(xs)  == [t |-> "arr", v |-> xs]
JObj(f)   == [t |-> "obj", v |-> f]
JBool(b)  == [t |-> "bool", v |-> b]

\* String(n) for a natural number n: its decimal digits
RECURSIVE Digits(_)
Digits(n) ==
  LET d == <<"0", "1", "2", "3", "4", "5", "6", "7", "8", "9">>[(n % 10) + 1]
  IN IF n < 10 THEN <<d>> ELSE Append(Digits(n \div 10), d)

\* `... (原长度: ${value.length})`
LengthSuffix(n) ==
  <<".", ".", ".", " ", "(", "u539F", "u957F", "u5EA6", ":", " ">> \o Digits(n) \o <<")">>

\* `... (另外还有 ${value.length - maxArrayItems} 项)"`
MoreItemsMarker(n) ==
  <<".", ".", ".", " ", "(", "u53E6", "u5916", "u8FD8", "u6709", " ">> \o Digits(n)
    \o <<" ", "u9879", ")", "\"">>

RECURSIVE TruncateValue(_, _, _)
TruncateValue(value, maxLength, maxArrayItems) ==
  CASE value.t = "str" ->
         IF Len(value.v) > maxLength
         THEN JStr(SubSeq(value.v, 1, maxLength) \o LengthSuffix(Len(value.v)))
         ELSE value
    [] value.t = "arr" ->
         LET kept == IF Len(value.v) > maxArrayItems THEN maxArrayItems ELSE Len(value.v)
             head == [i \in 1..kept |-> TruncateValue(value.v[i], maxLength, maxArrayItems)]
         IN IF Len(value.v) > maxArrayItems
            THEN JArr(Append(head, JStr(MoreItemsMarker(Len(value.v) - maxArrayItems))))
            ELSE JArr(head)
    [] value.t = "obj" ->
         JObj([k \in DOMAIN value.v |-> TruncateValue(value.v[k], maxLength, maxArrayItems)])
    [] OTHER -> value

\* a response is [present, status, headers, data]; truncateResponseData
\* copies the status and the headers, truncates the data, and returns a
\* falsy response as it is
TruncateResponseData(response) ==
  IF ~response.present THEN response
  ELSE [present |-> TRUE, status |-> response.status, headers |-> response.headers,
        data |-> TruncateValue(response.data, MaxLength, MaxArrayItems)]

\* value[k], null when value is no object or has no such property
Field(value, k) ==
  IF value.t = "obj" /\ k \in DOMAIN value.v THEN value.v[k] ELSE JNull

\* if (value)
Truthy(value) ==
  CASE value.t = "null" -> FALSE
    [] value.t = "num"  -> value.v # 0
    [] value.t = "str"  -> Len(value.v) > 0
    [] value.t = "bool" -> value.v
    [] OTHER -> TRUE

\* a value read as a response: its status, headers and data properties
AsResponse(value) ==
  [present |-> Truthy(value),
   status |-> IF Field(value, "status").t = "num" THEN Field(value, "status").v ELSE 0,
   headers |-> Field(value, "headers"),
   data |-> Field(value, "data")]

\* the object truncateResponseData returns, as a value
ResponseValue(response) ==
  IF ~response.present THEN JNull
  ELSE JObj([status |-> JNum(response.status), headers |-> response.headers,
             data |-> response.data])

\* runCustomTests, the case returned result: the response stored with the
\* outcome
CaptureResult(result) ==
  IF Truthy(result) /\ Truthy(Field(result, "status")) /\ Truthy(Field(result, "data"))
  THEN ResponseValue(TruncateResponseData(AsResponse(result)))
  ELSE IF Truthy(result) /\ Truthy(Field(result, "data"))
       THEN ResponseValue(TruncateResponseData(AsResponse(Field(result, "data"))))
       ELSE result

\* runCustomTests, the case threw error: the response stored with the outcome
CaptureError(error) ==
  LET fromAxios ==
        IF Truthy(Field(error, "response"))
        THEN ResponseValue(TruncateResponseData(AsResponse(Field(error, "response"))))
        ELSE IF Truthy(Field(error, "request"))
             THEN JObj([request |-> JBool(TRUE),
                        message |-> JStr(<<"N", "o", " ", "r", "e", "s", "p", "o", "n", "s", "e">>)])
             ELSE JObj(<<>>)
  IN IF Truthy(Field(error, "responseData"))
     THEN ResponseValue(TruncateResponseData(AsResponse(Field(error, "responseData"))))
     ELSE fromAxios

\* ------------------------------------------- StudentAPI test harness
Undefined == 0 - 1     \* a field that is undefined
NotANumber == 0 - 2    \* NaN
PosInfinity == 0 - 3   \* Infinity
NegInfinity == 0 - 4   \* -Infinity

TestCases ==
  [m \in ModuleIds |->
     CASE m = "basicTodos"  -> <<"getAll", "create", "read">>
       [] m = "todoFilters" -> <<"filterDone", "filterOpen">>
       [] OTHER             -> <<"register", "login">>]

CasesOfModule(m) == {TestCases[m][i] : i \in 1..Len(TestCases[m])}

\* the cases runCustomTests executes: those of the active modules
ExecutedCases(flags) == UNION {CasesOfModule(m) : m \in {x \in ModuleIds : flags[x]}}

\* what the API under test can do: the cases whose requests it answers as
\* the case expects (the userManagement cases always throw)
ApiBehaviours ==
  SUBSET (UNION {CasesOfModule(m) : m \in {"basicTodos", "todoFilters"}})

\* the stub APIs the report cycles are run against: one that passes every
\* case, one that lists todos but cannot create them
ApiStubs ==
  {UNION {CasesOfModule(m) : m \in {"basicTodos", "todoFilters"}},
   {"getAll", "filterDone"}}

\* Math.round(passed / total * 100)
RoundPercent(passed, total) == (200 * passed + total) \div (2 * total)

\* (passed / total * 100).toFixed(2) + '%', for total > 0
PassRate(passed, total) ==
  LET h == (20000 * passed + total) \div (2 * total)
  IN Digits(h \div 100) \o <<".">>
       \o (IF h % 100 < 10 THEN <<"0">> ELSE <<>>) \o Digits(h % 100) \o <<"%">>

\* TestResults.getSummary
\* (GetSummaryUnguarded is a getSummary that divides whatever total is.)
GetSummaryUnguarded(passed, failed, total) ==
  [passed |-> passed, failed |-> failed, total |-> total,
   passRate |-> IF total = 0 THEN <<"N", "a", "N", "%">> ELSE PassRate(passed, total),
   score |-> IF total = 0 THEN NotANumber ELSE RoundPercent(passed, total),
   maxPossibleScore |-> total * 10]

GetSummary(passed, failed, total) ==
  [passed |-> passed, failed |-> failed, total |-> total,
   passRate |-> IF total # 0 THEN PassRate(passed, total) ELSE <<"0", "%">>,
   score |-> IF total # 0 THEN RoundPercent(passed, total) ELSE 0,
   maxPossibleScore |-> total * 10]

\* new TestResults()
NewResults == [passed |-> 0, failed |-> 0, total |-> 0, tests |-> <<>>]

\* TestResults.addResult; thrown is "none" for a case that returned
\* (AddResultPassedOnly is a harness that records no case that threw.)
AddResultPassedOnly(results, name, thrown) ==
  IF thrown = "none"
  THEN [passed |-> results.passed + 1, failed |-> results.failed,
        total |-> results.total + 1,
        tests |-> Append(results.tests, [name |-> name, passed |-> TRUE, thrown |-> thrown])]
  ELSE results

AddResult(results, name, thrown) ==
  [passed |-> results.passed + (IF thrown = "none" THEN 1 ELSE 0),
   failed |-> results.failed + (IF thrown = "none" THEN 0 ELSE 1),
   total |-> results.total + 1,
   tests |-> Append(results.tests,
                    [name |-> name, passed |-> thrown = "none", thrown |-> thrown])]

\* this.lastCreatedTodoId = null at the start of runCustomTests: no id is
\* available, whatever an earlier run left
\* (KeepTodoId is a runCustomTests without that statement.)
KeepTodoId(todoId) == todoId

ResetTodoId(todoId) == FALSE

\* Object.entries(TestModules): the modules in insertion order
ModuleOrder == <<"basicTodos", "todoFilters", "userManagement">>

\* if (!module.active) continue
\* (ModuleRunsAlways is a runCustomTests without that statement.)
ModuleRunsAlways(flags, m) == TRUE

ModuleRuns(flags, m) == flags[m]

\* the two nested for loops: the position of the case that runs next when
\* the loops stand at case ti of module mi, <<0, 0>> when they are over
RECURSIVE NextPosition(_, _, _)
NextPosition(flags, mi, ti) ==
  IF mi > Len(ModuleOrder) THEN <<0, 0>>
  ELSE IF ~ModuleRuns(flags, ModuleOrder[mi]) THEN NextPosition(flags, mi + 1, 1)
  ELSE IF ti > Len(TestCases[ModuleOrder[mi]]) THEN NextPosition(flags, mi + 1, 1)
  ELSE <<mi, ti>>

\* what a case can throw: the userManagement cases and a read without a
\* created todo throw an Error; a case the API under test fails throws an
\* Error or an axios error with or without a response
ThrownBy(name, passes, todoId) ==
  IF name \in CasesOfModule("userManagement") THEN {"Error"}
  ELSE IF name = "read" /\ ~todoId THEN {"Error"}
  ELSE IF name \in passes THEN {"none"}
  ELSE {"Error", "AxiosResponse", "AxiosRequest"}

\* the cases of the active modules in the order of the registry
RECURSIVE CasesInOrder(_, _)
CasesInOrder(flags, mi) ==
  IF mi > Len(ModuleOrder) THEN <<>>
  ELSE (IF flags[ModuleOrder[mi]] THEN TestCases[ModuleOrder[mi]] ELSE <<>>)
         \o CasesInOrder(flags, mi + 1)

\* what runCustomTests stores in lastTestResults
RunCustomTests(passed, total) ==
  [present |-> TRUE,
   score |-> GetSummary(passed, total - passed, total).score,
   maxPossibleScore |-> GetSummary(passed, total - passed, total).maxPossibleScore,
   totalPassed |-> passed,
   totalFailed |-> total - passed,
   nTests |-> total]

\* CommandHandler.runTests reads passed, failed and total of the object
\* runCustomTests returned, which has none of these fields
RunTests(results) ==
  [present |-> TRUE,
   score |-> results.score,
   maxPossibleScore |-> NotANumber,
   totalPassed |-> Undefined,
   totalFailed |-> Undefined,
   nTests |-> results.nTests]

NoResults ==
  [present |-> FALSE, score |-> 0, maxPossibleScore |-> 0,
   totalPassed |-> 0, totalFailed |-> 0, nTests |-> 0]

\* sanitizeReportData on data.testResults: a number field that is NaN
\* becomes 0; an undefined field is no number and stays
SanitizeReportData(r) ==
  [k \in DOMAIN r |->
     IF k \in {"score", "maxPossibleScore", "totalPassed", "totalFailed", "nTests"}
     THEN IF r[k] = NotANumber THEN 0 ELSE r[k]
     ELSE r[k]]

\* sanitizeReportData on any value of the report: Object.keys walks objects
\* and arrays alike; a number that Number.isNaN accepts becomes 0
RECURSIVE SanitizeValue(_)
SanitizeValue(value) ==
  CASE value.t = "num" -> IF value.v = NotANumber THEN JNum(0) ELSE value
    [] value.t = "arr" -> JArr([i \in 1..Len(value.v) |-> SanitizeValue(value.v[i])])
    [] value.t = "obj" -> JObj([k \in DOMAIN value.v |-> SanitizeValue(value.v[k])])
    [] OTHER -> value

\* the data of the report createReportData assembles: todos is response.data
\* of GET /todos when that is an array, else []
ReportData(response, testResults) ==
  LET todos == IF response.present /\ response.data.t = "arr" THEN response.data
               ELSE JArr(<<>>)
  IN JObj([todoCount |-> JNum(Len(todos.v)), todos |-> todos, testResults |-> testResults])

\* lastTestResults after CommandHandler.runTests ran the active modules
\* against an API that passes the cases in passes
TestRun(flags, passes) ==
  RunTests(RunCustomTests(Cardinality(ExecutedCases(flags) \cap passes),
                          Cardinality(ExecutedCases(flags))))

\* ------------------------------------------------------------ frames
\* reportData: its signature, its challenge and its data.testResults
\* (NoResults stands for null)
NoReport ==
  [built |-> FALSE, challenge |-> NoChal, sigKey |-> NoKey, sigChal |-> NoChal,
   testResults |-> NoResults]

IdleFrame ==
  [pc |-> "idle", cfg |-> NoKey, ret |-> "none", genKey |-> NoKey,
   privKey |-> NoKey, chal |-> NoChal, nchal |-> 0, auth |-> NoAuth,
   report |-> NoReport, err |-> "none", tryCtx |-> "escape",
   response |-> NoCommand, handled |-> "none"]

NoObs ==
  [aRegens |-> 0, onlyRereg |-> TRUE, verifyOk |-> FALSE, posts |-> <<>>,
   sendResult |-> "none", handlerCalls |-> 0, cmd |-> "none", cycGens |-> 0,
   firstAuthErr |-> "none", reentries |-> 0, ioFailed |-> FALSE]

\* reportOnce has returned or thrown: its locals are gone, the response
\* it returned is kept
Finished(f, e) ==
  Upd(IdleFrame, [pc |-> "done", err |-> e, handled |-> f.handled,
                  response |-> f.response])

InFlight == {c \in Slots : fr[c].pc \notin {"idle", "done"}}
Free     == {c \in Slots : fr[c].pc \in {"idle", "done"}}

\* the key pairs something still refers to
KeysInUse ==
  {diskKeyPair, pubFile, privFile}
  \cup UNION {{fr[c].cfg, fr[c].genKey, fr[c].privKey, fr[c].auth.sigKey,
               fr[c].report.sigKey} : c \in Slots}

\* crypto.generateKeyPairSync: a key pair unlike any that exists
FreshKey ==
  CHOOSE k \in 1..(Cardinality(KeysInUse) + 1) :
    /\ k \notin KeysInUse
    /\ \A j \in 1..(k - 1) : j \in KeysInUse

\* the class of a report POST rejection recorded in ob[c].posts
PostClass(kind) ==
  CASE kind = "stale" -> "stale"
    [] kind = "net"   -> "net"
    [] OTHER          -> "reject"

\* no StudentAPI operation is being followed
NoTestRun ==
  [pc |-> "off", mi |-> 0, ti |-> 0, todoId |-> FALSE, leftover |-> FALSE, started |-> <<>>,
   results |-> NewResults, summary |-> GetSummary(0, 0, 0)]
NoCleanRun ==
  [pc |-> "off", todos |-> 0, failing |-> {}, getFails |-> FALSE, i |-> 0,
   attempted |-> {}, deleted |-> {}, success |-> "none", handled |-> "none"]
NoResponse == [present |-> FALSE, status |-> 0, headers |-> JNull, data |-> JNull]
NoPayload ==
  [pc |-> "off", response |-> NoResponse, once |-> NoResponse, twice |-> NoResponse,
   testResults |-> JNull, report |-> JNull, sanitized |-> JNull,
   thrown |-> FALSE, result |-> JNull, snapshot |-> JNull]
NoModRead == [pc |-> "off", cfg |-> EmptyCfg]
NoReset == [diskKeyPair |-> NoKey, pubFile |-> NoKey, privFile |-> NoKey, handled |-> "none"]
NoResetRun == [pc |-> "off", first |-> NoReset, second |-> NoReset]
NoAct ==
  [pc |-> "off", moduleId |-> "absent", active |-> TRUE, read |-> EmptyCfg,
   result |-> "none"]

Init ==
  /\ coreVariant \in {"auto", "manual"}
  /\ cmdVariant \in {"manual", "auto"}
  /\ slow = FALSE
  /\ apiPasses \in ApiStubs
  /\ server = AnyServer
  /\ \E k \in {<<NoKey, NoKey, NoKey>>, <<1, 1, 1>>, <<1, 1, NoKey>>} :
       /\ diskKeyPair = k[1]
       /\ pubFile = k[2]
       /\ privFile = k[3]
  /\ privLocked \in BOOLEAN
  /\ privLocked => privFile # NoKey
  /\ modFile = [state |-> "ok", cfg |-> DefaultModules]
  /\ modActive = DefaultModules
  /\ lastTestResults = NoResults
  /\ faults = 0
  /\ started = 0
  /\ intervalSet = FALSE
  /\ fr = [c \in Slots |-> IdleFrame]
  /\ ob = [c \in Slots |-> NoObs]
  /\ testRun = NoTestRun
  /\ cleanRun = NoCleanRun
  /\ payload = NoPayload
  /\ modRead = NoModRead
  /\ resetRun = NoResetRun
  /\ act = [i \in Callers |-> NoAct]
  /\ stopped = FALSE


\* where an exception thrown at the current position of cycle c lands
Landing(c) ==
  CASE fr[c].tryCtx = "auth_catch"  -> "auth_catch"
    [] fr[c].tryCtx = "outer_catch" -> "outer_catch"
    [] OTHER                        -> "done"

\* frame f and observation o become those of slot c
Step(c, f, o) ==
  /\ fr' = [fr EXCEPT ![c] = f]
  /\ ob' = [ob EXCEPT ![c] = o]

\* cycle c throws e at its current position
Throw(c, e, o) ==
  IF Landing(c) = "done"
  THEN Step(c, Finished(fr[c], e), o)
  ELSE Step(c, Upd(fr[c], [err |-> e, pc |-> Landing(c)]), o)

\* reportOnce returns
Return(c, o) == Step(c, Finished(fr[c], "none"), o)

\* ------------------------------------------- Commands.autoReport
\* await Commands.reportOnce(): the first cycle, before the timer exists
AutoReportFirst ==
  /\ started = 0
  /\ started' = 1
  /\ Step(1, Upd(IdleFrame, [pc |-> "load"]), NoObs)
  /\ UNCHANGED <<env, keys, mods, faults, intervalSet>>

\* setInterval(...): reached only when the first reportOnce returned
InstallTimer ==
  /\ started = 1
  /\ ~intervalSet
  /\ fr[1].pc = "done"
  /\ fr[1].err = "none"
  /\ intervalSet' = TRUE
  /\ UNCHANGED <<env, keys, mods, faults, started, fr, ob>>

\* the timer callback calls reportOnce whatever earlier calls are doing; an
\* earlier call is still running only when a cycle outlasts the interval
TimerMayFire == intervalSet /\ (slow \/ InFlight = {})

Tick ==
  /\ TimerMayFire
  /\ started < MaxCycles
  /\ Free # {}
  /\ LET c == CHOOSE x \in Free : \A y \in Free : x <= y
     IN  Step(c, Upd(IdleFrame, [pc |-> "load"]), NoObs)
  /\ started' = started + 1
  /\ UNCHANGED <<env, keys, mods, faults, intervalSet>>

\* ------------------------------------------- Commands.reportOnce
\* const config = await ConfigManager.loadConfig()
Load(c) ==
  /\ fr[c].pc = "load"
  /\ Step(c, Upd(fr[c], [pc |-> "auth_key", cfg |-> diskKeyPair,
                         tryCtx |-> "auth_catch"]),
             Upd(ob[c], [aRegens |-> 0, onlyRereg |-> TRUE]))
  /\ UNCHANGED <<env, keys, mods, faults, sched>>

\* ------------------------------------------- ReporterCore.authenticate
\* the key check and the read of the private key file
AuthKeyCheck(c) ==
  /\ fr[c].pc = "auth_key"
  /\ IF fr[c].cfg = NoKey
     THEN Throw(c, "E_NoKeyPair", ob[c])
     ELSE IF ~Readable(privFile, privLocked)
          THEN Throw(c, "E_KeyFileUnreadable", ob[c])
          ELSE Step(c, Upd(fr[c], [pc |-> "auth_chal", privKey |-> privFile]), ob[c])
  /\ UNCHANGED <<env, keys, mods, faults, sched>>

\* GET auth/challenge
AuthGetChallenge(c) ==
  /\ fr[c].pc = "auth_chal"
  /\ \E a \in server.chal :
       CASE a = "ok" ->
              Step(c, Upd(fr[c], [pc |-> "auth_verify", chal |-> fr[c].nchal + 1,
                                  nchal |-> fr[c].nchal + 1]), ob[c])
         [] a = "empty" -> Throw(c, "E_NoChallenge", ob[c])
         [] OTHER       -> Throw(c, "E_Net", ob[c])
  /\ UNCHANGED <<env, keys, mods, faults, sched>>

\* sign the challenge, POST auth/verify, and act on the answer
AuthVerify(c) ==
  /\ fr[c].pc = "auth_verify"
  /\ \E a \in server.verify :
       LET o == Upd(ob[c], [onlyRereg |-> ob[c].onlyRereg /\ a = "rereg",
                            verifyOk |-> a = "ok"])
           sig == Sign(fr[c].privKey, fr[c].chal)
           d == IF a = "ok" THEN [act |-> "return_proof", err |-> "none"]
                ELSE AuthOnVerifyError(coreVariant, a)
       IN CASE d.act = "return_proof" ->
                 Step(c, Upd(fr[c], [pc |-> "create", tryCtx |-> "outer_catch",
                                     auth |-> [challenge |-> fr[c].chal,
                                               sigKey |-> sig.sigKey,
                                               sigChal |-> sig.sigChal]]), o)
            [] d.act = "regen" ->
                 /\ ob[c].aRegens < MaxRegen
                 /\ Step(c, Upd(fr[c], [pc |-> "gen_pub", ret |-> "auth_reenter"]),
                            Upd(o, [aRegens |-> o.aRegens + 1]))
            [] OTHER -> Throw(c, d.err, o)
  /\ UNCHANGED <<env, keys, mods, faults, sched>>

\* ------------------------------------------- ReporterCore.generateAndSaveKeyPair
\* generateKeyPairSync and the write of the public key file
GenWritePub(c) ==
  /\ fr[c].pc = "gen_pub"
  /\ \/ /\ pubFile' = FreshKey
        /\ Step(c, Upd(fr[c], [pc |-> "gen_priv", genKey |-> FreshKey]), ob[c])
        /\ UNCHANGED faults
     \/ /\ faults < MaxFaults
        /\ faults' = faults + 1
        /\ UNCHANGED pubFile
        /\ Throw(c, "E_FsWrite", Upd(ob[c], [ioFailed |-> TRUE]))
  /\ UNCHANGED <<env, diskKeyPair, privFile, mods, sched>>

\* the write of the private key file; a file the agent may not write makes
\* it fail
GenWritePriv(c) ==
  /\ fr[c].pc = "gen_priv"
  /\ \/ /\ ~privLocked
        /\ privFile' = fr[c].genKey
        /\ Step(c, Upd(fr[c], [pc |-> "gen_save"]), ob[c])
        /\ UNCHANGED faults
     \/ /\ ~privLocked
        /\ faults < MaxFaults
        /\ faults' = faults + 1
        /\ UNCHANGED privFile
        /\ Throw(c, "E_FsWrite", Upd(ob[c], [ioFailed |-> TRUE]))
     \/ /\ privLocked
        /\ UNCHANGED <<privFile, faults>>
        /\ Throw(c, "E_FsWrite", Upd(ob[c], [ioFailed |-> TRUE]))
  /\ UNCHANGED <<env, diskKeyPair, pubFile, mods, sched>>

\* ConfigManager.saveConfig(config): a failed write makes it return false
SaveConfig(keyPair, saved) ==
  /\ saved \in BOOLEAN
  /\ saved \/ faults < MaxFaults
  /\ faults' = IF saved THEN faults ELSE faults + 1
  /\ diskKeyPair' = IF saved THEN keyPair ELSE diskKeyPair

\* config.keyPair = keyPair; await ConfigManager.saveConfig(config), whose
\* result is ignored
GenSave(c) ==
  /\ fr[c].pc = "gen_save"
  /\ \E saved \in BOOLEAN :
       /\ SaveConfig(fr[c].genKey, saved)
       /\ Step(c, Upd(fr[c], [pc |-> IF coreVariant = "auto" THEN "gen_reg" ELSE "gen_ret",
                              cfg |-> fr[c].genKey, genKey |-> NoKey]),
                  Upd(ob[c], [cycGens |-> ob[c].cycGens + 1,
                              ioFailed |-> ob[c].ioFailed \/ ~saved]))
  /\ UNCHANGED <<env, pubFile, privFile, mods, sched>>

\* the registering version: POST auth/register-key; a keyId in the answer is
\* saved with the config, a failure is logged
GenRegister(c) ==
  /\ fr[c].pc = "gen_reg"
  /\ \/ \E saved \in BOOLEAN :
          /\ SaveConfig(fr[c].cfg, saved)
          /\ Step(c, Upd(fr[c], [pc |-> "gen_ret"]),
                     Upd(ob[c], [ioFailed |-> ob[c].ioFailed \/ ~saved]))
     \/ /\ Step(c, Upd(fr[c], [pc |-> "gen_ret"]), ob[c])
        /\ UNCHANGED <<diskKeyPair, faults>>
  /\ UNCHANGED <<env, pubFile, privFile, mods, sched>>

\* return config, to the caller's continuation
GenReturn(c) ==
  /\ fr[c].pc = "gen_ret"
  /\ CASE fr[c].ret = "auth_reenter" ->
            Step(c, Upd(fr[c], [pc |-> "auth_key"]), ob[c])
       [] fr[c].ret = "auth_call" ->
            Step(c, Upd(fr[c], [pc |-> "auth_key"]),
                    Upd(ob[c], [aRegens |-> 0, onlyRereg |-> TRUE]))
       [] fr[c].ret = "reenter" ->
            /\ ob[c].reentries < MaxReentry
            /\ Step(c, Upd(IdleFrame, [pc |-> "load"]),
                       Upd(NoObs, [reentries |-> ob[c].reentries + 1]))
       [] OTHER -> Return(c, ob[c])
  /\ UNCHANGED <<env, keys, mods, faults, sched>>


\* ------------------------------------------- Commands.reportOnce, continued
\* catch (authError) around the first authenticate
AuthCatch(c) ==
  /\ fr[c].pc = "auth_catch"
  /\ LET d == ReportOnceAuthCatch(cmdVariant, fr[c].err)
         o == Upd(ob[c], [firstAuthErr |-> fr[c].err])
         f == Upd(fr[c], [err |-> "none", tryCtx |-> "outer_catch"])
     IN CASE d = "return" ->
               /\ Return(c, o)
               /\ UNCHANGED <<diskKeyPair, faults>>
          [] d = "regen_return" ->
               /\ Step(c, Upd(f, [pc |-> "gen_pub", ret |-> "done"]), o)
               /\ UNCHANGED <<diskKeyPair, faults>>
          [] d = "regen_reauth" ->
               /\ Step(c, Upd(f, [pc |-> "gen_pub", ret |-> "auth_call"]), o)
               /\ UNCHANGED <<diskKeyPair, faults>>
          [] d = "reset_regen_reauth" ->
               \E saved \in BOOLEAN :
                 /\ SaveConfig(NoKey, saved)
                 /\ Step(c, Upd(f, [pc |-> "gen_pub", ret |-> "auth_call", cfg |-> NoKey]),
                            Upd(o, [ioFailed |-> o.ioFailed \/ ~saved]))
          [] OTHER ->
               /\ Step(c, Upd(fr[c], [pc |-> "outer_catch", tryCtx |-> "outer_catch"]), o)
               /\ UNCHANGED <<diskKeyPair, faults>>
  /\ UNCHANGED <<env, pubFile, privFile, mods, sched>>

\* ReporterCore.createReportData: the report carries authData.signature; the
\* first version leaves data.testResults null; the second version also
\* carries authData.challenge, runs the tests first and puts the
\* lastTestResults object itself into data.testResults, so that
\* sanitizeReportData changes the stored object too
Create(c) ==
  /\ fr[c].pc = "create"
  /\ lastTestResults' = IF coreVariant = "manual"
                        THEN SanitizeReportData(TestRun(modActive, apiPasses))
                        ELSE lastTestResults
  /\ Step(c, Upd(fr[c], [pc |-> IF coreVariant = "manual" THEN "send_chal" ELSE "send_post",
                         report |-> [built |-> TRUE,
                                     challenge |-> IF coreVariant = "manual"
                                                   THEN fr[c].auth.challenge ELSE NoChal,
                                     sigKey |-> fr[c].auth.sigKey,
                                     sigChal |-> fr[c].auth.sigChal,
                                     testResults |->
                                       IF coreVariant = "manual"
                                       THEN SanitizeReportData(TestRun(modActive, apiPasses))
                                       ELSE NoResults]]),
             Upd(ob[c], [posts |-> <<>>]))
  /\ UNCHANGED <<env, keys, modFile, modActive, faults, sched>>

\* ------------------------------------------- ReporterCore.sendReport
\* second version, step 1: GET students/challenge
SendGetChallenge(c) ==
  /\ fr[c].pc = "send_chal"
  /\ \E a \in server.chal :
       CASE a = "ok" ->
              Step(c, Upd(fr[c], [pc |-> "send_sign", chal |-> fr[c].nchal + 1,
                                  nchal |-> fr[c].nchal + 1]), ob[c])
         [] a = "empty" -> Throw(c, "E_TypeError", Upd(ob[c], [sendResult |-> "fail"]))
         [] OTHER       -> Throw(c, "E_Net", Upd(ob[c], [sendResult |-> "fail"]))
  /\ UNCHANGED <<env, keys, mods, faults, sched>>

\* read config.keyPair.privateKeyFile, sign the challenge held, and put the
\* signature into reportData.signature
SendSign(c) ==
  /\ fr[c].pc = "send_sign"
  /\ IF ~Readable(privFile, privLocked)
     THEN Throw(c, "E_CannotReadKey", Upd(ob[c], [sendResult |-> "fail"]))
     ELSE Step(c, Upd(fr[c], [pc |-> "send_post",
                              report |-> Upd(fr[c].report, Sign(privFile, fr[c].chal))]),
                  ob[c])
  /\ UNCHANGED <<env, keys, mods, faults, sched>>

\* POST students/report and act on the answer
SendPost(c) ==
  /\ fr[c].pc = "send_post"
  /\ Len(ob[c].posts) < MaxPosts
  /\ \/ \E r \in ResponsesWith(server.cmds) :
          Step(c, Upd(fr[c], [pc |-> "handle", response |-> r]),
                  Upd(ob[c], [posts |-> Append(ob[c].posts, "ok"),
                              sendResult |-> "ok", cmd |-> r.command]))
     \/ \E k \in server.report :
          LET o == Upd(ob[c], [posts |-> Append(ob[c].posts, PostClass(k))])
              d == SendReportOnError(coreVariant, Len(ob[c].posts) + 1, k)
          IN IF d.act = "resign"
             THEN Step(c, Upd(fr[c], [pc |-> "send_sign", chal |-> fr[c].nchal + 1,
                                      nchal |-> fr[c].nchal + 1]), o)
             ELSE Throw(c, d.err, Upd(o, [sendResult |-> "fail"]))
  /\ UNCHANGED <<env, keys, mods, faults, sched>>

\* ------------------------------------------- CommandHandler.handleServerCommands
\* TestModuleManager.handleModuleCommand: res is the boolean it returns
HandleModuleCommand(moduleId, active, res) ==
  IF MissingModuleId(moduleId)
  THEN /\ res = "false"
       /\ UNCHANGED <<modFile, modActive, faults>>
  ELSE \E f0 \in InitOutcomes(modFile), written \in BOOLEAN :
         LET updated == Merge(GetModulesConfig(f0), [m \in {moduleId} |-> active])
         IN IF written
            THEN /\ modFile' = [state |-> "ok", cfg |-> updated]
                 /\ modActive' = ActivateTestModule(modActive, moduleId, active)
                 /\ res = "true"
                 /\ UNCHANGED faults
            ELSE /\ faults < MaxFaults
                 /\ faults' = faults + 1
                 /\ modFile' = f0
                 /\ UNCHANGED modActive
                 /\ res = "false"

\* the RESET_KEYS branch: loadConfig, keyPair = null, saveConfig,
\* deleteKeyFiles; with ConfigManager unbound its first statement throws
ResetKeys(res) ==
  IF ConfigManagerImported
  THEN /\ \E saved \in BOOLEAN : SaveConfig(NoKey, saved)
       /\ pubFile' = NoKey
       /\ privFile' = NoKey
       /\ res = "true"
  ELSE /\ res = "throw"
       /\ UNCHANGED <<keys, faults>>

\* the dispatch on response.command; res is what the dispatched operation
\* returned ("true", "false") or "throw" when it threw
Dispatch(resp, res) ==
  CASE CommandBranch(resp.command) = "module" ->
         /\ HandleModuleCommand(resp.moduleId, resp.active, res)
         /\ UNCHANGED <<keys, lastTestResults>>
    [] CommandBranch(resp.command) = "tests" ->
         /\ lastTestResults' = TestRun(modActive, apiPasses)
         /\ res = "true"
         /\ UNCHANGED <<keys, modFile, modActive, faults>>
    [] CommandBranch(resp.command) = "clean" ->
         /\ res \in {"true", "false"}
         /\ UNCHANGED <<keys, mods, faults>>
    [] CommandBranch(resp.command) = "reset" ->
         /\ ResetKeys(res)
         /\ UNCHANGED mods
    [] OTHER ->
         /\ res = "false"
         /\ UNCHANGED <<keys, mods, faults>>

\* if (response.command) await CommandHandler.handleServerCommands(response);
\* return response
Handle(c) ==
  /\ fr[c].pc = "handle"
  /\ IF ShouldHandle(fr[c].response)
     THEN \E res \in {"true", "false", "throw"} :
            /\ Dispatch(fr[c].response, res)
            /\ Step(c, Finished(Upd(fr[c], [handled |-> HandlerReturn(res)]), "none"),
                       Upd(ob[c], [handlerCalls |-> ob[c].handlerCalls + 1]))
     ELSE /\ Return(c, ob[c])
          /\ UNCHANGED <<keys, mods, faults>>
  /\ UNCHANGED <<env, sched>>


\* the outer catch of reportOnce
OuterCatch(c) ==
  /\ fr[c].pc = "outer_catch"
  /\ LET d == ReportOnceOuterCatch(cmdVariant, fr[c].err)
     IN IF d = "prompt"
        THEN \/ Step(c, Upd(fr[c], [pc |-> "reconf", err |-> "none",
                                    tryCtx |-> "escape"]), ob[c])
             \/ Step(c, Finished(fr[c], OuterCatchEnds(fr[c].err)), ob[c])
        ELSE Step(c, Finished(fr[c], OuterCatchEnds(fr[c].err)), ob[c])
  /\ UNCHANGED <<env, keys, mods, faults, sched>>

\* if (reconfigure): loadConfig, keyPair = null, saveConfig, then
\* generateAndSaveKeyPair; the second version then calls reportOnce again
Reconfigure(c) ==
  /\ fr[c].pc = "reconf"
  /\ \E saved \in BOOLEAN :
       /\ SaveConfig(NoKey, saved)
       /\ Step(c, Upd(fr[c], [pc |-> "gen_pub", cfg |-> NoKey,
                              ret |-> IF cmdVariant = "auto" THEN "reenter" ELSE "done"]),
                  Upd(ob[c], [ioFailed |-> ob[c].ioFailed \/ ~saved]))
  /\ UNCHANGED <<env, pubFile, privFile, mods, sched>>

\* ------------------------------------------------------------ specification
CycleStep(c) ==
  \/ Load(c)
  \/ AuthKeyCheck(c)
  \/ AuthGetChallenge(c)
  \/ AuthVerify(c)
  \/ GenWritePub(c)
  \/ GenWritePriv(c)
  \/ GenSave(c)
  \/ GenRegister(c)
  \/ GenReturn(c)
  \/ AuthCatch(c)
  \/ Create(c)
  \/ SendGetChallenge(c)
  \/ SendSign(c)
  \/ SendPost(c)
  \/ Handle(c)
  \/ OuterCatch(c)
  \/ Reconfigure(c)

Next ==
  \/ AutoReportFirst
  \/ InstallTimer
  \/ Tick
  \/ \E c \in Slots : CycleStep(c)

\* every report cycle ends within the report interval
Spec == Init /\ [][Next]_vars

\* a report cycle can outlast the report interval; the agent has been set
\* up, the file system is reliable, and the server is one of three kinds
InitSlow ==
  /\ coreVariant \in {"auto", "manual"}
  /\ cmdVariant \in {"manual", "auto"}
  /\ slow = TRUE
  /\ apiPasses = UNION {CasesOfModule(m) : m \in {"basicTodos", "todoFilters"}}
  /\ server \in {HealthyServer, ForgetfulServer, DemandingServer}
  /\ server = DemandingServer => coreVariant = "auto" /\ cmdVariant = "manual"
  /\ diskKeyPair = 1
  /\ pubFile = 1
  /\ privFile = 1
  /\ privLocked = FALSE
  /\ modFile = [state |-> "ok", cfg |-> DefaultModules]
  /\ modActive = DefaultModules
  /\ lastTestResults = NoResults
  /\ faults = MaxFaults
  /\ started = 0
  /\ intervalSet = FALSE
  /\ fr = [c \in Slots |-> IdleFrame]
  /\ ob = [c \in Slots |-> NoObs]
  /\ testRun = NoTestRun
  /\ cleanRun = NoCleanRun
  /\ payload = NoPayload
  /\ modRead = NoModRead
  /\ resetRun = NoResetRun
  /\ act = [i \in Callers |-> NoAct]
  /\ stopped = FALSE

SpecSlow == InitSlow /\ [][Next]_vars

\* ------------------------------------------- SIGINT
\* Ctrl+C: once autoReport has registered its handler, the handler clears
\* the timer and calls process.exit(0); before that the signal ends the
\* process by default.  Either way nothing of the process runs afterwards.
Sigint ==
  /\ started > 0
  /\ ~stopped
  /\ stopped' = TRUE
  /\ UNCHANGED <<coreVariant, cmdVariant, slow, apiPasses, server, privLocked, testRun,
                 cleanRun, payload, managerOps, keys, mods, faults, sched, fr, ob>>

\* the agent under autoReport until the user stops it
NextSigint ==
  \/ Sigint
  \/ ~stopped /\ AutoReportFirst
  \/ ~stopped /\ InstallTimer
  \/ ~stopped /\ Tick
  \/ \E c \in Slots : ~stopped /\ CycleStep(c)

SpecSigint == Init /\ [][NextSigint]_vars

\* ------------------------------------------- StudentAPI.runCustomTests
\* const results = new TestResults(); this.lastCreatedTodoId = null
RunCustomTestsBegin ==
  /\ testRun.pc = "start"
  /\ testRun' = Upd(testRun, [pc |-> "loop", mi |-> 1, ti |-> 1,
                              todoId |-> ResetTodoId(testRun.todoId),
                              leftover |-> testRun.todoId,
                              results |-> NewResults])
  /\ UNCHANGED <<agent, apiPasses, modActive, lastTestResults, cleanRun, payload, managerOps>>

\* the loops reach the next case: await test.run.bind(this)() begins
StartCase ==
  /\ testRun.pc = "loop"
  /\ LET pos == NextPosition(modActive, testRun.mi, testRun.ti)
     IN /\ pos # <<0, 0>>
        /\ testRun' = Upd(testRun, [pc |-> "running", mi |-> pos[1], ti |-> pos[2],
                                    started |-> Append(testRun.started,
                                                       TestCases[ModuleOrder[pos[1]]][pos[2]])])
  /\ UNCHANGED <<agent, apiPasses, modActive, lastTestResults, cleanRun, payload, managerOps>>

\* the case returns or throws; either way addResult records it
FinishCase ==
  /\ testRun.pc = "running"
  /\ LET name == TestCases[ModuleOrder[testRun.mi]][testRun.ti]
     IN \E thrown \in ThrownBy(name, apiPasses, testRun.todoId) :
          testRun' = Upd(testRun,
                         [pc |-> "loop", ti |-> testRun.ti + 1,
                          todoId |-> testRun.todoId \/ (name = "create" /\ thrown = "none"),
                          results |-> AddResult(testRun.results, name, thrown)])
  /\ UNCHANGED <<agent, apiPasses, modActive, lastTestResults, cleanRun, payload, managerOps>>

\* the loops are over: getSummary, and the store into lastTestResults
Summarise ==
  /\ testRun.pc = "loop"
  /\ NextPosition(modActive, testRun.mi, testRun.ti) = <<0, 0>>
  /\ testRun' = Upd(testRun, [pc |-> "done",
                              summary |-> GetSummary(testRun.results.passed,
                                                     testRun.results.failed,
                                                     testRun.results.total)])
  /\ lastTestResults' = RunCustomTests(testRun.results.passed, testRun.results.total)
  /\ UNCHANGED <<agent, apiPasses, modActive, cleanRun, payload, managerOps>>

\* ------------------------------------------- StudentAPI.cleanData
MaxTodos == 3         \* todos the API under test holds

\* GET /todos
CleanGet ==
  /\ cleanRun.pc = "get"
  /\ cleanRun' = IF cleanRun.getFails
                 THEN Upd(cleanRun, [pc |-> "ret", success |-> "false"])
                 ELSE Upd(cleanRun, [pc |-> "loop", i |-> 1])
  /\ UNCHANGED <<agent, apiPasses, mods, testRun, payload, managerOps>>

\* for (const todo of todos) await axios.delete(...): a delete that fails
\* throws to the catch of cleanData
CleanDelete ==
  /\ cleanRun.pc = "loop"
  /\ cleanRun' =
       IF cleanRun.i > cleanRun.todos
       THEN Upd(cleanRun, [pc |-> "ret", success |-> "true"])
       ELSE IF cleanRun.i \in cleanRun.failing
            THEN Upd(cleanRun, [pc |-> "ret", success |-> "false",
                                attempted |-> cleanRun.attempted \cup {cleanRun.i}])
            ELSE Upd(cleanRun, [i |-> cleanRun.i + 1,
                                attempted |-> cleanRun.attempted \cup {cleanRun.i},
                                deleted |-> cleanRun.deleted \cup {cleanRun.i}])
  /\ UNCHANGED <<agent, apiPasses, mods, testRun, payload, managerOps>>

\* CommandHandler.cleanData returns result.success as a boolean, which
\* handleServerCommands returns
CleanReturn ==
  /\ cleanRun.pc = "ret"
  /\ cleanRun' = Upd(cleanRun, [pc |-> "done", handled |-> cleanRun.success])
  /\ UNCHANGED <<agent, apiPasses, mods, testRun, payload, managerOps>>

\* ------------------------------------------- truncateResponseData
TruncateOnce ==
  /\ payload.pc = "input"
  /\ payload' = Upd(payload, [pc |-> "once", once |-> TruncateResponseData(payload.response)])
  /\ UNCHANGED <<agent, apiPasses, mods, testRun, cleanRun, managerOps>>

TruncateAgain ==
  /\ payload.pc = "once"
  /\ payload' = Upd(payload, [pc |-> "twice", twice |-> TruncateResponseData(payload.once)])
  /\ UNCHANGED <<agent, apiPasses, mods, testRun, cleanRun, managerOps>>

\* ------------------------------------------- runCustomTests, the response kept
\* the try block after await test.run.bind(this)(), or the catch block: the
\* response that goes into testData
CaptureResponse ==
  /\ payload.pc = "settled"
  /\ payload' = Upd(payload, [pc |-> "captured",
                              snapshot |-> IF payload.thrown
                                           THEN CaptureError(payload.result)
                                           ELSE CaptureResult(payload.result)])
  /\ UNCHANGED <<agent, apiPasses, mods, testRun, cleanRun, managerOps>>

\* ------------------------------------------- ReporterCore.createReportData
\* the report is assembled from what GET /todos answered and from
\* lastTestResults
CollectReportData ==
  /\ payload.pc = "collect"
  /\ payload' = Upd(payload, [pc |-> "assembled",
                              report |-> ReportData(payload.response, payload.testResults)])
  /\ UNCHANGED <<agent, apiPasses, mods, testRun, cleanRun, managerOps>>

\* sanitizeReportData(reportData); return reportData
SanitizeReport ==
  /\ payload.pc = "assembled"
  /\ payload' = Upd(payload, [pc |-> "returned", sanitized |-> SanitizeValue(payload.report)])
  /\ UNCHANGED <<agent, apiPasses, mods, testRun, cleanRun, managerOps>>

\* what the API under test can answer to GET /todos: JSON.parse reads a
\* number beyond the range of a double, such as 1e999, as Infinity
TodosData ==
  {JArr(<<>>),
   JArr(<<JObj([id |-> JNum(1), title |-> JStr(<<"a">>)])>>),
   JArr(<<JObj([id |-> JNum(PosInfinity), title |-> JStr(<<"a">>)])>>),
   JArr(<<JObj([id |-> JNum(2), tags |-> JArr(<<JNum(NegInfinity), JNum(3)>>)])>>),
   JObj([error |-> JStr(<<"x">>)])}

\* lastTestResults as the report finds it: as CommandHandler.runTests
\* stored it, or the structure createReportData puts in its place
TestResultsData ==
  {JObj([score |-> JNum(s), maxPossibleScore |-> JNum(m)]) :
     s \in {0, 50}, m \in {0, NotANumber}}

\* a string of n characters
Chars(n) == [i \in 1..n |-> "a"]

\* the headers of a response of the API under test
HeadersData ==
  {JObj([contentType |-> JStr(Chars(4))]),
   JObj([contentType |-> JStr(Chars(4)), setCookie |-> JStr(Chars(MaxLength + 20))])}

\* the response data the truncation is followed on
PayloadData ==
  {JNull, JNum(7), JStr(Chars(0)), JStr(Chars(3)),
   JStr(Chars(MaxLength)), JStr(Chars(MaxLength + 1)),
   JArr(<<>>), JArr(<<JNum(1), JStr(Chars(2)), JNull>>),
   JArr([i \in 1..MaxArrayItems |-> JNum(i)]),
   JArr([i \in 1..(MaxArrayItems + 1) |-> JNum(i)]),
   JObj([id |-> JNum(1), title |-> JStr(Chars(MaxLength + 1))]),
   JObj([id |-> JNum(1), title |-> JStr(Chars(4))]),
   JArr(<<JObj([id |-> JNum(1), tags |-> JArr([i \in 1..(MaxArrayItems + 2) |-> JNull])])>>)}

\* what a test case can return: the axios response it got (with the message
\* the case adds), an object of its own with a data property, or a result
\* object of its own
AxiosResponses ==
  {JObj([status |-> JNum(st), headers |-> h, data |-> d, message |-> JStr(Chars(2))]) :
     st \in {200, 404}, h \in HeadersData,
     d \in {JArr(<<>>), JArr([i \in 1..(MaxArrayItems + 1) |-> JNum(i)]),
            JObj([id |-> JNum(1), title |-> JStr(Chars(MaxLength + 1))]),
            JStr(Chars(0))}}

CaseResults ==
  AxiosResponses
  \cup {JObj([data |-> JArr([i \in 1..(MaxArrayItems + 1) |-> JNum(i)]),
              message |-> JStr(Chars(2))]),
        JObj([data |-> JObj([data |-> JStr(Chars(MaxLength + 1))])]),
        JObj([passed |-> JBool(TRUE), message |-> JStr(Chars(2))])}

\* what a test case can throw: an axios error with a response, an axios
\* error of a request nothing answered, an Error, an error that carries
\* responseData
CaseErrors ==
  {JObj([message |-> JStr(Chars(3)), response |-> r]) : r \in AxiosResponses}
  \cup {JObj([message |-> JStr(Chars(3)), request |-> JObj(<<>>)]),
        JObj([message |-> JStr(Chars(3))]),
        JObj([message |-> JStr(Chars(3)),
              responseData |-> JObj([data |-> JStr(Chars(MaxLength + 1))])])}

\* test-modules.json as getModulesConfig can find it: not there, not JSON,
\* there with every module switched on but not to be read (readFile rejects,
\* writeFile does not), or the JSON of some entries (of all compiled-in
\* modules, of some, of none, of a module the client does not have)
UnreadableFile == [state |-> "unreadable", cfg |-> [m \in ModuleIds |-> TRUE]]

ModuleFiles ==
  {[state |-> "missing", cfg |-> EmptyCfg], [state |-> "corrupt", cfg |-> EmptyCfg],
   UnreadableFile}
  \cup {[state |-> "ok", cfg |-> [m \in ids |-> m \in on]] :
          ids \in {ModuleIds, {"basicTodos"}, {"todoFilters", "ghostModule"}, {}},
          on \in {{}, {"userManagement", "ghostModule"}}}

\* one operation of StudentAPI is about to run: runCustomTests against some
\* API under test with some modules active, cleanData against some todos of
\* which some cannot be deleted, truncateResponseData of some response
HarnessStudentAPI ==
  \/ /\ modActive \in [ModuleIds -> BOOLEAN]
     /\ apiPasses \in ApiBehaviours
     /\ \E id \in BOOLEAN : testRun = Upd(NoTestRun, [pc |-> "start", todoId |-> id])
     /\ cleanRun = NoCleanRun
     /\ payload = NoPayload
  \/ /\ modActive = DefaultModules
     /\ apiPasses = {}
     /\ testRun = NoTestRun
     /\ \E n \in 0..MaxTodos, getFails \in BOOLEAN :
          \E failing \in SUBSET (1..n) :
            cleanRun = Upd(NoCleanRun, [pc |-> "get", todos |-> n,
                                        failing |-> failing, getFails |-> getFails])
     /\ payload = NoPayload
  \/ /\ modActive = DefaultModules
     /\ apiPasses = {}
     /\ testRun = NoTestRun
     /\ cleanRun = NoCleanRun
     /\ \/ \E data \in PayloadData, status \in {200, 404}, headers \in HeadersData :
             payload = Upd(NoPayload, [pc |-> "input",
                                       response |-> [present |-> TRUE, status |-> status,
                                                     headers |-> headers, data |-> data]])
        \/ \E data \in TodosData, tr \in TestResultsData, present \in BOOLEAN :
             payload = Upd(NoPayload, [pc |-> "collect",
                                       response |-> IF present
                                                    THEN [present |-> TRUE, status |-> 200,
                                                          headers |-> JNull, data |-> data]
                                                    ELSE NoResponse,
                                       testResults |-> tr])
        \/ \E result \in CaseResults :
             payload = Upd(NoPayload, [pc |-> "settled", thrown |-> FALSE, result |-> result])
        \/ \E error \in CaseErrors :
             payload = Upd(NoPayload, [pc |-> "settled", thrown |-> TRUE, result |-> error])

\* no operation of StudentAPI is being followed
HarnessStudentAPIOff ==
  /\ modActive = DefaultModules
  /\ apiPasses = {}
  /\ testRun = NoTestRun
  /\ cleanRun = NoCleanRun
  /\ payload = NoPayload

\* config.keyPair and the two key files are as k says
KeysAre(k) ==
  /\ diskKeyPair = k[1]
  /\ pubFile = k[2]
  /\ privFile = k[3]

\* the calls of handleModuleCommand that can be running: params.moduleId
\* names a module or is missing, params.active is a boolean
CallFrames ==
  {NoAct}
  \cup {Upd(NoAct, [pc |-> "call", moduleId |-> m, active |-> a]) :
          m \in {"basicTodos", "userManagement", "absent"}, a \in BOOLEAN}

\* the operations of StudentAPI, TestModuleManager and CommandHandler on
\* their own: one operation is about to run on some input, or some calls of
\* handleModuleCommand are about to run side by side
InitHarness ==
  /\ coreVariant = "manual"
  /\ cmdVariant = "manual"
  /\ slow = FALSE
  /\ server = HealthyServer
  /\ privLocked = FALSE
  /\ lastTestResults = NoResults
  /\ faults = 0
  /\ started = 0
  /\ intervalSet = FALSE
  /\ fr = [c \in Slots |-> IdleFrame]
  /\ ob = [c \in Slots |-> NoObs]
  /\ stopped = FALSE
  /\ \/ /\ KeysAre(<<1, 1, 1>>)
        /\ modFile = [state |-> "ok", cfg |-> DefaultModules]
        /\ modRead = NoModRead
        /\ resetRun = NoResetRun
        /\ act = [i \in Callers |-> NoAct]
        /\ HarnessStudentAPI
     \/ /\ KeysAre(<<1, 1, 1>>)
        /\ modFile \in ModuleFiles
        /\ modRead = Upd(NoModRead, [pc |-> "init"])
        /\ resetRun = NoResetRun
        /\ act = [i \in Callers |-> NoAct]
        /\ HarnessStudentAPIOff
     \/ /\ \E k \in {<<NoKey, NoKey, NoKey>>, <<1, 1, 1>>, <<1, 1, NoKey>>} : KeysAre(k)
        /\ modFile = [state |-> "ok", cfg |-> DefaultModules]
        /\ modRead = NoModRead
        /\ resetRun = Upd(NoResetRun, [pc |-> "first"])
        /\ act = [i \in Callers |-> NoAct]
        /\ HarnessStudentAPIOff
     \/ /\ KeysAre(<<1, 1, 1>>)
        /\ modFile \in {[state |-> "ok", cfg |-> DefaultModules], UnreadableFile}
        /\ modRead = NoModRead
        /\ resetRun = NoResetRun
        /\ act \in [Callers -> CallFrames]
        /\ \E i \in Callers : act[i].pc = "call"
        /\ HarnessStudentAPIOff

\* what no operation followed on its own changes
fixed == <<coreVariant, cmdVariant, slow, server, privLocked, sched, fr, ob, stopped>>
studentOps == <<apiPasses, testRun, cleanRun, payload>>

\* ------------------------------------------- TestModuleManager.getModulesConfig
\* await this.init(): the defaults are written when the file is not there
ModulesInit ==
  /\ modRead.pc = "init"
  /\ modFile' \in InitOutcomes(modFile)
  /\ modRead' = Upd(modRead, [pc |-> "read"])
  /\ UNCHANGED <<fixed, keys, faults, modActive, lastTestResults, studentOps, resetRun, act>>

\* readFile, JSON.parse and the spread over the defaults, or the catch
ModulesRead ==
  /\ modRead.pc = "read"
  /\ modRead' = Upd(modRead, [pc |-> "done", cfg |-> GetModulesConfig(modFile)])
  /\ UNCHANGED <<fixed, keys, faults, mods, studentOps, resetRun, act>>

\* ------------------------------------------- RESET_KEYS, twice
\* handleServerCommands({command: 'RESET_KEYS'}): what it returned and what
\* it left of the keys
ResetOutcome(res) ==
  [diskKeyPair |-> diskKeyPair', pubFile |-> pubFile', privFile |-> privFile',
   handled |-> HandlerReturn(res)]

ResetKeysFirst ==
  /\ resetRun.pc = "first"
  /\ \E res \in {"true", "throw"} :
       /\ ResetKeys(res)
       /\ resetRun' = Upd(resetRun, [pc |-> "second", first |-> ResetOutcome(res)])
  /\ UNCHANGED <<fixed, mods, studentOps, modRead, act>>

ResetKeysSecond ==
  /\ resetRun.pc = "second"
  /\ \E res \in {"true", "throw"} :
       /\ ResetKeys(res)
       /\ resetRun' = Upd(resetRun, [pc |-> "done", second |-> ResetOutcome(res)])
  /\ UNCHANGED <<fixed, mods, studentOps, modRead, act>>

\* ------------------------------------------- TestModuleManager.handleModuleCommand
\* the call i of handleModuleCommand, from one await to the next
\* if (!moduleId) throw, caught: return false
HandleModuleCommandBegin(i) ==
  /\ act[i].pc = "call"
  /\ act' = [act EXCEPT ![i] =
               IF MissingModuleId(act[i].moduleId)
               THEN Upd(act[i], [pc |-> "done", result |-> "false"])
               ELSE Upd(act[i], [pc |-> "read"])]
  /\ UNCHANGED <<fixed, keys, faults, mods, studentOps, modRead, resetRun>>

\* updateModulesConfig: await this.init(); const currentConfig = await
\* this.getModulesConfig()
UpdateModulesConfigRead(i) ==
  /\ act[i].pc = "read"
  /\ \E f0 \in InitOutcomes(modFile) :
       /\ modFile' = f0
       /\ act' = [act EXCEPT ![i] = Upd(act[i], [pc |-> "write",
                                                  read |-> GetModulesConfig(f0)])]
  /\ UNCHANGED <<fixed, keys, faults, modActive, lastTestResults, studentOps, modRead,
                 resetRun>>

\* updateModulesConfig: await fs.writeFile of { ...currentConfig, ...newConfig };
\* a write that fails makes handleModuleCommand return false
UpdateModulesConfigWrite(i) ==
  /\ act[i].pc = "write"
  /\ \/ /\ modFile' = [state |-> IF modFile.state = "unreadable" THEN "unreadable" ELSE "ok",
                        cfg |-> Merge(act[i].read,
                                      [m \in {act[i].moduleId} |-> act[i].active])]
        /\ act' = [act EXCEPT ![i] = Upd(act[i], [pc |-> "import"])]
        /\ UNCHANGED faults
     \/ /\ faults < MaxFaults
        /\ faults' = faults + 1
        /\ act' = [act EXCEPT ![i] = Upd(act[i], [pc |-> "done", result |-> "false"])]
        /\ UNCHANGED modFile
  /\ UNCHANGED <<fixed, keys, modActive, lastTestResults, studentOps, modRead, resetRun>>

\* after await import('../api/student-api.js'):
\* StudentAPI.activateTestModule(moduleId, active); return success
HandleModuleCommandActivate(i) ==
  /\ act[i].pc = "import"
  /\ modActive' = ActivateTestModule(modActive, act[i].moduleId, act[i].active)
  /\ act' = [act EXCEPT ![i] = Upd(act[i], [pc |-> "done", result |-> "true"])]
  /\ UNCHANGED <<fixed, keys, faults, modFile, lastTestResults, studentOps, modRead,
                 resetRun>>

ModuleCommandStep(i) ==
  \/ HandleModuleCommandBegin(i)
  \/ UpdateModulesConfigRead(i)
  \/ UpdateModulesConfigWrite(i)
  \/ HandleModuleCommandActivate(i)

NextHarness ==
  \/ RunCustomTestsBegin
  \/ StartCase
  \/ FinishCase
  \/ Summarise
  \/ CleanGet
  \/ CleanDelete
  \/ CleanReturn
  \/ TruncateOnce
  \/ TruncateAgain
  \/ CaptureResponse
  \/ CollectReportData
  \/ SanitizeReport
  \/ ModulesInit
  \/ ModulesRead
  \/ ResetKeysFirst
  \/ ResetKeysSecond
  \/ \E i \in Callers : ModuleCommandStep(i)

SpecHarness == InitHarness /\ [][NextHarness]_vars


TypeOK ==
  /\ coreVariant \in {"auto", "manual"}
  /\ cmdVariant \in {"auto", "manual"}
  /\ started \in 0..MaxCycles
  /\ faults \in 0..MaxFaults
  /\ \A c \in Slots : Len(ob[c].posts) <= MaxPosts


\* ------------------------------------------------------------ properties
\* C1: authenticate performs at most one automatic key regeneration per
\* call: against a server that answers every verify request with
\* requiresReregistration it regenerates once and then fails.
C1_RetryAtMostOnce ==
  \A c \in Slots : ob[c].aRegens <= 1

\* C2: when the first report POST of a sendReport call is rejected as a
\* stale proof with a fresh challenge, sendReport submits a second time
\* before it returns.
C2_StaleProofResubmitted ==
  \A c \in Slots :
    (ob[c].sendResult # "none" /\ Len(ob[c].posts) >= 1 /\ ob[c].posts[1] = "stale")
      => Len(ob[c].posts) = 2

\* C3: the resubmitting sendReport re-signs the fresh challenge with the
\* private key on disk and submits exactly once more; when the second POST is
\* rejected the same way the call fails: there are never more than two POSTs.
C3_ResubmitExactlyOnce ==
  coreVariant = "auto" =>
    \A c \in Slots :
      /\ Len(ob[c].posts) <= 2
      /\ (Len(ob[c].posts) = 1 /\ ob[c].posts[1] = "stale" /\ fr[c].pc = "send_post")
           => (fr[c].report.sigChal = fr[c].chal /\ fr[c].report.sigKey = privFile
               /\ fr[c].chal # fr[c].auth.challenge)
      /\ ob[c].posts = <<"stale", "stale">>
           => (ob[c].sendResult = "fail" /\ fr[c].pc \notin {"send_sign", "send_post", "handle"})

C3_Witness ==
  \E c \in Slots :
    /\ coreVariant = "auto"
    /\ ob[c].posts = <<"stale", "stale">>
    /\ ob[c].sendResult = "fail"
    /\ fr[c].pc = "outer_catch"

\* C4: a report POST rejected for a reason other than a stale proof is
\* surfaced at once: the first such rejection makes sendReport throw to
\* reportOnce without another POST and without touching the keys.
C4_RejectionSurfaced ==
  [][\A c \in Slots :
       (ob[c].posts = <<>> /\ ob'[c].posts = <<"reject">>)
         => /\ ob'[c].sendResult = "fail"
            /\ fr'[c].pc = "outer_catch"
            /\ fr'[c].err # "none"
            /\ keys' = keys]_vars

C4_Witness ==
  \E c \in Slots :
    /\ ob[c].posts = <<"reject">>
    /\ ob[c].sendResult = "fail"
    /\ fr[c].pc = "outer_catch"

\* C5: a report exists, and is sent, only in a cycle whose authenticate
\* returned a proof the server accepted.
C5_ReportNeedsAuth ==
  \A c \in Slots :
    (fr[c].report.built \/ fr[c].pc \in {"send_chal", "send_sign", "send_post", "handle"})
      => (fr[c].auth # NoAuth /\ ob[c].verifyOk)

C5_Witness ==
  \E c \in Slots :
    /\ fr[c].pc = "handle"
    /\ ob[c].sendResult = "ok"
    /\ fr[c].auth # NoAuth

\* C6: under autoReport at most one report cycle is in flight at any time.
C6_OneCycleInFlight ==
  Cardinality(InFlight) <= 1

\* C7: handleServerCommands never throws: whenever it has been called, the
\* cycle ended without an exception and with a boolean from the handler.
C7_HandlerReturnsBoolean ==
  \A c \in Slots :
    ob[c].handlerCalls > 0
      => (fr[c].handled \in {"true", "false"} /\ fr[c].err = "none")

C7_Witness ==
  \E c \in Slots :
    /\ ob[c].handlerCalls > 0
    /\ ob[c].cmd = "RESET_KEYS"
    /\ fr[c].handled = "false"

\* C8: reportOnce calls handleServerCommands exactly once when sendReport
\* succeeded with a response that carries a command, and not at all
\* otherwise.
C8_HandlerCalledIffCommand ==
  \A c \in Slots :
    /\ ob[c].handlerCalls <= 1
    /\ ob[c].handlerCalls = 1 => (ob[c].sendResult = "ok" /\ ob[c].cmd # "none")
    /\ (fr[c].pc = "done" /\ ob[c].sendResult = "ok" /\ ob[c].cmd # "none")
         => ob[c].handlerCalls = 1

C8_Witness ==
  \E c \in Slots :
    /\ fr[c].pc = "done"
    /\ ob[c].sendResult = "ok"
    /\ ob[c].cmd = "RUN_TEST"
    /\ ob[c].handlerCalls = 1

C8_WitnessNoCommand ==
  \E c \in Slots :
    /\ fr[c].pc = "done"
    /\ ob[c].sendResult = "ok"
    /\ ob[c].cmd = "none"
    /\ ob[c].handlerCalls = 0

\* C9: after a RESET_KEYS command has been handled the key pair is gone
\* from the config and both key files are deleted, and the handler has
\* returned true.
C9_ResetKeysClears ==
  \A c \in Slots :
    (fr[c].pc = "done" /\ ob[c].cmd = "RESET_KEYS")
      => /\ fr[c].handled = "true"
         /\ diskKeyPair = NoKey
         /\ pubFile = NoKey
         /\ privFile = NoKey

\* C10: a cycle whose authenticate finds no usable key (no key pair in the
\* config, or no private key file) generates a new key pair before it ends,
\* unless a file write failed.
C10_RegeneratedWhenNoUsableKey ==
  \A c \in Slots :
    (/\ fr[c].pc = "done"
     /\ ob[c].firstAuthErr \in {"E_NoKeyPair", "E_KeyFileUnreadable"}
     /\ ~ob[c].ioFailed)
      => ob[c].cycGens >= 1

\* C11: ACTIVATE_MODULE without params.moduleId is a no-op reported as
\* unhandled: the handler returns false, and neither test-modules.json nor
\* any active flag in memory changes.
C11_MissingModuleIdNoop ==
  [][\A c \in Slots :
       (/\ fr[c].pc = "handle"
        /\ fr[c].response.command = "ACTIVATE_MODULE"
        /\ fr[c].response.moduleId = "absent"
        /\ fr'[c].pc = "done")
         => /\ fr'[c].handled = "false"
            /\ modFile' = modFile
            /\ modActive' = modActive]_vars

C11_Witness ==
  \E c \in Slots :
    /\ fr[c].pc = "done"
    /\ fr[c].response.command = "ACTIVATE_MODULE"
    /\ fr[c].response.moduleId = "absent"
    /\ fr[c].handled = "false"
    /\ ob[c].handlerCalls = 1

\* C12: when ACTIVATE_MODULE for a compiled-in module has been handled
\* successfully, the module's active flag in memory, its entry in
\* test-modules.json and the flag a reload from the file (initModuleStatus)
\* yields all equal the requested value, and the cases of a deactivated
\* module are not among those the next test run executes.
C12_ActivationConsistent ==
  [][\A c \in Slots :
       (/\ fr[c].pc = "handle"
        /\ fr[c].response.command = "ACTIVATE_MODULE"
        /\ fr[c].response.moduleId \in ModuleIds
        /\ fr'[c].pc = "done"
        /\ fr'[c].handled = "true")
         => LET m == fr[c].response.moduleId
                v == fr[c].response.active
            IN /\ modActive'[m] = v
               /\ modFile'.state = "ok"
               /\ m \in DOMAIN modFile'.cfg
               /\ modFile'.cfg[m] = v
               /\ \A f0 \in [ModuleIds -> BOOLEAN] : InitModuleStatus(modFile', f0)[m] = v
               /\ ~v => CasesOfModule(m) \cap ExecutedCases(modActive') = {}]_vars

C12_Witness ==
  \E c \in Slots :
    /\ fr[c].pc = "done"
    /\ fr[c].response.command = "ACTIVATE_MODULE"
    /\ fr[c].response.moduleId = "todoFilters"
    /\ ~fr[c].response.active
    /\ fr[c].handled = "true"
    /\ ~modActive["todoFilters"]
    /\ ~modFile.cfg["todoFilters"]

\* C13: for a command name other than ACTIVATE_MODULE, RUN_TEST, CLEAN_DATA
\* and RESET_KEYS the handler returns false without raising, and the key
\* pair, test-modules.json, the active flags and the stored test results
\* stay as they were.
C13_UnknownCommandNoop ==
  [][\A c \in Slots :
       (/\ fr[c].pc = "handle"
        /\ fr[c].response.command
             \notin {"none", "ACTIVATE_MODULE", "RUN_TEST", "CLEAN_DATA", "RESET_KEYS"}
        /\ fr'[c].pc = "done")
         => /\ fr'[c].handled = "false"
            /\ fr'[c].err = "none"
            /\ keys' = keys
            /\ mods' = mods]_vars

C13_Witness ==
  \E c \in Slots :
    /\ fr[c].pc = "done"
    /\ fr[c].response.command = "UNKNOWN"
    /\ fr[c].handled = "false"
    /\ ob[c].handlerCalls = 1

\* C14: the report built in a cycle that follows a RUN_TEST carries the
\* test results RUN_TEST stored: whenever test results are stored, a report
\* that is about to be sent has them as its data.testResults.
C14_NextReportCarriesStoredResults ==
  \A c \in Slots :
    (fr[c].pc \in {"send_chal", "send_sign", "send_post"} /\ lastTestResults.present)
      => fr[c].report.testResults = lastTestResults

\* C15: CLEAN_DATA tolerates a delete that fails: when the todos could be
\* listed, a delete was attempted for every one of them, those that could
\* be deleted are deleted, and the command is reported handled.
C15_CleanDataTolerant ==
  (cleanRun.pc = "done" /\ ~cleanRun.getFails)
    => /\ cleanRun.attempted = 1..cleanRun.todos
       /\ cleanRun.deleted = (1..cleanRun.todos) \ cleanRun.failing
       /\ cleanRun.handled = "true"

\* C16: whatever cases passed and failed, the summary of a test run has
\* score = 10 * passed and maxPossibleScore = 10 * total, and so has what
\* the run stores in lastTestResults.
C16_ScoreIsTenPerPass ==
  testRun.pc = "done"
    => /\ testRun.summary.score = 10 * testRun.summary.passed
       /\ testRun.summary.maxPossibleScore = 10 * testRun.summary.total
       /\ lastTestResults.score = 10 * testRun.summary.passed
       /\ lastTestResults.maxPossibleScore = 10 * testRun.summary.total

\* C17: the summary of a test run that ran no case has the literal '0%' as
\* its passRate and 0 as its score, and no NaN anywhere.
C17_EmptyRunSummary ==
  (testRun.pc = "done" /\ testRun.results.total = 0)
    => /\ testRun.summary.passRate = <<"0", "%">>
       /\ testRun.summary.score = 0
       /\ testRun.summary.maxPossibleScore = 0
       /\ testRun.summary.passed = 0
       /\ testRun.summary.failed = 0
       /\ lastTestResults.score = 0
       /\ lastTestResults.maxPossibleScore = 0

C17_Witness ==
  /\ testRun.pc = "done"
  /\ \A m \in ModuleIds : ~modActive[m]
  /\ testRun.results.total = 0
  /\ testRun.summary.passRate = <<"0", "%">>

\* C18: truncateResponseData is idempotent: truncating a truncated
\* response again gives the truncated response.
C18_TruncationIdempotent ==
  payload.pc = "twice" => payload.twice = payload.once

\* C19: a case that throws is recorded as one outcome with passed = false
\* and the run goes on: when runCustomTests is over there is exactly one
\* outcome for every case of every active module, whatever the cases threw.
C19_OneOutcomePerCase ==
  LET tests == testRun.results.tests
  IN /\ \A i \in 1..Len(tests) : tests[i].passed = (tests[i].thrown = "none")
     /\ testRun.results.total = Len(tests)
     /\ testRun.results.passed + testRun.results.failed = testRun.results.total
     /\ testRun.results.failed = Cardinality({i \in 1..Len(tests) : ~tests[i].passed})
     /\ testRun.pc = "done"
          => [i \in 1..Len(tests) |-> tests[i].name] = CasesInOrder(modActive, 1)

C19_Witness ==
  LET tests == testRun.results.tests
  IN /\ testRun.pc = "done"
     /\ Len(tests) = 7
     /\ tests[1].thrown = "AxiosResponse"
     /\ tests[2].passed
     /\ tests[4].thrown = "AxiosRequest"
     /\ tests[6].thrown = "Error"

\* C20: runCustomTests runs the cases one after the other: the modules in
\* the order of the registry, the cases of a module in the order declared,
\* a case only when the one before it is over, and no case of an inactive
\* module.
C20_SequentialInOrder ==
  LET order == CasesInOrder(modActive, 1)
      n == Len(testRun.started)
  IN /\ n <= Len(order)
     /\ testRun.started = SubSeq(order, 1, n)
     /\ n - Len(testRun.results.tests) = (IF testRun.pc = "running" THEN 1 ELSE 0)
     /\ \A i \in 1..n : \A m \in ModuleIds :
          testRun.started[i] \in CasesOfModule(m) => modActive[m]
     /\ testRun.pc = "done" => n = Len(order)

C20_Witness ==
  /\ testRun.pc = "done"
  /\ ~modActive["basicTodos"]
  /\ modActive["todoFilters"]
  /\ modActive["userManagement"]
  /\ testRun.started = <<"filterDone", "filterOpen", "register", "login">>
  /\ Len(testRun.results.tests) = 4

\* C21: a challenge is presented to the server in at most one request: the
\* report that sendReport is about to POST does not carry the challenge
\* that authenticate has already sent to auth/verify.
C21_ChallengeConsumedOnce ==
  coreVariant = "manual" =>
    \A c \in Slots :
      fr[c].pc = "send_post" => fr[c].report.challenge # fr[c].auth.challenge

\* C22: one key pair is authoritative at a time: whenever the saved config
\* names a key pair and both key files exist, the public key file and the
\* private key file hold the halves of the same generated pair.
C22_OneKeyPairAuthoritative ==
  coreVariant = "manual" =>
    ((diskKeyPair # NoKey /\ pubFile # NoKey /\ privFile # NoKey) => pubFile = privFile)

\* C23: the config getModulesConfig returns has an entry for every
\* compiled-in module, whatever test-modules.json holds and also when the
\* file is missing or cannot be parsed.
C23_DefaultsBackfilled ==
  modRead.pc = "done" => ModuleIds \subseteq DOMAIN modRead.cfg

C23_Witness ==
  /\ modRead.pc = "done"
  /\ modFile.state = "ok"
  /\ "userManagement" \notin DOMAIN modFile.cfg
  /\ "ghostModule" \in DOMAIN modRead.cfg
  /\ "userManagement" \in DOMAIN modRead.cfg

\* C24: a key generation that has saved the new key pair goes on to POST
\* it to auth/register-key, and whatever the answer to that request,
\* generateAndSaveKeyPair then returns normally, with both key files
\* holding the new pair and config.keyPair set.
C24_RegistrationAttemptedNonFatal ==
  [][\A c \in Slots :
       /\ (fr[c].pc = "gen_save" /\ fr'[c].pc # "gen_save") => fr'[c].pc = "gen_reg"
       /\ (fr[c].pc = "gen_reg" /\ fr'[c].pc # "gen_reg")
            => /\ fr'[c].pc = "gen_ret"
               /\ fr'[c].err = "none"
               /\ fr'[c].cfg # NoKey
               /\ pubFile' = fr'[c].cfg
               /\ privFile' = fr'[c].cfg]_vars

\* C25: key reset is idempotent: a second RESET_KEYS, handled when the first
\* has been handled, leaves config.keyPair and the key files as the first
\* left them, and is handled without an error.
C25_ResetIdempotent ==
  resetRun.pc = "done"
    => /\ resetRun.second.diskKeyPair = resetRun.first.diskKeyPair
       /\ resetRun.second.pubFile = resetRun.first.pubFile
       /\ resetRun.second.privFile = resetRun.first.privFile
       /\ resetRun.second.handled = "true"

\* C28: module activation is atomic to observers: while calls of
\* handleModuleCommand are running or over, whatever runs at one of their
\* awaits finds the active flag test-modules.json holds for a compiled-in
\* module equal to the module's active flag in memory.
C28_ActivationAtomic ==
  (\E i \in Callers : act[i].pc # "off")
    => \A m \in ModuleIds :
         (modFile.state = "ok" /\ m \in DOMAIN modFile.cfg) => modFile.cfg[m] = modActive[m]

\* C30: updates of test-modules.json are serialized: when the calls of
\* handleModuleCommand that ran side by side are over, the file holds the
\* flag of every call that succeeded, unless a later call set the same
\* module.
C30_NoLostUpdate ==
  (\A i \in Callers : act[i].pc \in {"off", "done"})
    => \A i \in Callers :
         (/\ act[i].result = "true"
          /\ \A j \in Callers \ {i} : act[j].moduleId # act[i].moduleId)
           => /\ modFile.state = "ok"
              /\ act[i].moduleId \in DOMAIN modFile.cfg
              /\ modFile.cfg[act[i].moduleId] = act[i].active

\* C26: when config.keyPair is absent or the private key file cannot be
\* read, authenticate throws its no-usable-key error at once: it has sent no
\* challenge request and no verify request, and it has generated no key.
C26_NoUsableKeyIsTerminal ==
  [][\A c \in Slots :
       (/\ fr[c].pc = "auth_key"
        /\ (fr[c].cfg = NoKey \/ privFile = NoKey \/ privLocked)
        /\ fr'[c] # fr[c])
         => /\ fr'[c].err \in {"E_NoKeyPair", "E_KeyFileUnreadable"}
            /\ fr'[c].pc \in {"auth_catch", "outer_catch", "done"}
            /\ fr'[c].nchal = fr[c].nchal
            /\ fr'[c].auth = fr[c].auth
            /\ ob'[c].cycGens = ob[c].cycGens
            /\ keys' = keys]_vars

C26_Witness ==
  \E c \in Slots :
    /\ fr[c].pc = "auth_catch"
    /\ fr[c].err = "E_KeyFileUnreadable"
    /\ privLocked
    /\ fr[c].nchal = 0
    /\ ob[c].cycGens = 0

\* the errors of a request that failed in transport: no response, or a
\* response the client does not recognise
TransportErrors == {"E_Net", "E_Data", "E_AxReport_other", "E_AxVerify_other"}

\* C27: a report cycle that fails with a transport error is abandoned: the
\* catch of reportOnce sends nothing more and changes nothing, reportOnce
\* returns normally, and the schedule goes on: after a first cycle that
\* failed so the timer is installed, and the timer starts the next cycle.
C27_TransportErrorAbandonsCycle ==
  /\ [][\A c \in Slots :
          (fr[c].pc = "outer_catch" /\ fr[c].err \in TransportErrors /\ fr'[c] # fr[c])
            => /\ fr'[c].pc = "done"
               /\ fr'[c].err = "none"
               /\ ob'[c] = ob[c]
               /\ keys' = keys
               /\ sched' = sched]_vars
  /\ [](\A c \in Slots :
          (/\ fr[c].pc = "done"
           /\ Len(ob[c].posts) > 0
           /\ ob[c].posts[Len(ob[c].posts)] = "net")
            => /\ fr[c].err = "none"
               /\ (started = 1 /\ ~intervalSet) => ENABLED InstallTimer
               /\ (intervalSet /\ started < MaxCycles) => ENABLED Tick)

C27_Witness ==
  /\ intervalSet
  /\ started = 1
  /\ fr[1].pc = "done"
  /\ ob[1].posts = <<"net">>
  /\ ob[1].sendResult = "fail"
  /\ ENABLED Tick

\* C29: SIGINT takes effect between cycles: the process stops only when no
\* report cycle is in flight, and no cycle starts once it has stopped.
C29_SigintBetweenCycles ==
  stopped => InFlight = {}

\* the numbers that are not finite
NonFinite == {NotANumber, PosInfinity, NegInfinity}

\* some number of the value, at any depth, is not finite
RECURSIVE HasNonFinite(_)
HasNonFinite(value) ==
  CASE value.t = "num" -> value.v \in NonFinite
    [] value.t = "arr" -> \E i \in 1..Len(value.v) : HasNonFinite(value.v[i])
    [] value.t = "obj" -> \E k \in DOMAIN value.v : HasNonFinite(value.v[k])
    [] OTHER -> FALSE

\* C31: the report createReportData returns holds no number that is not
\* finite: every NaN, Infinity and -Infinity collected, at any depth, has
\* become 0.
C31_NoNonFiniteNumber ==
  payload.pc = "returned" => ~HasNonFinite(payload.sanitized)

\* no string of the value is longer than the character limit and the suffix
\* that tells its length, no array longer than the item limit and its marker
RECURSIVE SizeBounded(_)
SizeBounded(value) ==
  CASE value.t = "str" -> Len(value.v) <= MaxLength + Len(LengthSuffix(Len(value.v)))
    [] value.t = "arr" -> /\ Len(value.v) <= MaxArrayItems + 1
                          /\ \A i \in 1..Len(value.v) : SizeBounded(value.v[i])
    [] value.t = "obj" -> \A k \in DOMAIN value.v : SizeBounded(value.v[k])
    [] OTHER -> TRUE

\* C32: the response runCustomTests stores with a test outcome is bounded
\* in size, whatever the case returned or threw.
C32_SnapshotSizeBounded ==
  payload.pc = "captured" => SizeBounded(payload.snapshot)

\* C33: one externally triggered call of reportOnce generates at most one
\* key pair, whatever the server answers and whatever the operator
\* confirms: counting the generations before each re-entry of reportOnce
\* and those since the last one, there is never a second.
C33_RegenerationBounded ==
  \A c \in Slots : ob[c].reentries + ob[c].cycGens <= 1

\* C34: every report that is about to be POSTed, the first time and when
\* resubmitted, carries a challenge, and its signature is the signature of
\* that challenge under the private key on disk.
C34_SignatureMatchesChallenge ==
  \A c \in Slots :
    fr[c].pc = "send_post"
      => /\ fr[c].report.challenge # NoChal
         /\ fr[c].report.sigChal = fr[c].report.challenge
         /\ fr[c].report.sigKey = privFile

\* C35: the result CommandHandler.runTests stores in lastTestResults is
\* consistent: totalPassed and totalFailed are defined and not negative,
\* they add up to the number of entries of tests, and maxPossibleScore is
\* ten times that number.
C35_StoredResultConsistent ==
  lastTestResults.present
    => /\ lastTestResults.totalPassed >= 0
       /\ lastTestResults.totalFailed >= 0
       /\ lastTestResults.totalPassed + lastTestResults.totalFailed = lastTestResults.nTests
       /\ lastTestResults.maxPossibleScore = 10 * lastTestResults.nTests

\* config.keyPair on disk names a private key file that is not there
KeyPairDangles == diskKeyPair # NoKey /\ privFile = NoKey

\* C36: no step of the agent makes the key metadata dangle: key generation,
\* the regeneration paths of the report cycle and RESET_KEYS, a failed
\* config save or file write included, never leave config.keyPair on disk
\* without the private key file it names.
C36_KeyMetadataNeverDangles ==
  [][~KeyPairDangles => ~KeyPairDangles']_vars

C36_Witness ==
  \E c \in Slots :
    /\ ob[c].cmd = "RESET_KEYS"
    /\ ob[c].handlerCalls = 1
    /\ fr[c].pc = "done"
    /\ diskKeyPair # NoKey
    /\ privFile # NoKey

\* a key pair was generated and the save of the config failed
C36_WitnessFailedSave ==
  \E c \in Slots :
    /\ ob[c].cycGens = 1
    /\ ob[c].ioFailed
    /\ fr[c].pc = "done"
    /\ privFile # NoKey
    /\ ~KeyPairDangles

\* C37: the persisted module-activation config names compiled-in modules
\* only, whatever ACTIVATE_MODULE commands were handled: a command for a
\* module id the registry does not have is not written to the file.
C37_OnlyCompiledInModulesPersisted ==
  modFile.state = "ok" => DOMAIN modFile.cfg \subseteq ModuleIds

\* the active flag of module m as test-modules.json holds it; a module the
\* file has no entry for counts as its default
PersistedFlag(file, m) ==
  IF m \in DOMAIN file.cfg THEN file.cfg[m] ELSE DefaultModules[m]

\* C38: ACTIVATE_MODULE for a module changes that module only: no step of
\* a call of handleModuleCommand that runs alone changes the persisted or
\* the in-memory active flag of any other module, also when the read of the
\* existing config file fails.
C38_OnlyNamedModuleChanges ==
  [][\A i \in Callers :
       (/\ \A j \in Callers \ {i} : act[j].pc = "off"
        /\ act'[i] # act[i])
         => \A m \in ModuleIds \ {act[i].moduleId} :
              /\ PersistedFlag(modFile', m) = PersistedFlag(modFile, m)
              /\ modActive'[m] = modActive[m]]_vars

\* the outcome recorded for the case name in the run, k its position
Recorded(name, passed) ==
  {k \in 1..Len(testRun.results.tests) :
     testRun.results.tests[k].name = name /\ testRun.results.tests[k].passed = passed}

\* C39: the id a run of runCustomTests reads a todo by is one its own
\* create case stored: in a run where the create case did not pass before
\* it, the read case fails, whatever id an earlier run left behind.
C39_NoTodoIdAcrossRuns ==
  testRun.pc \in {"loop", "running", "done"}
    => /\ \A k \in Recorded("read", TRUE) : \E j \in Recorded("create", TRUE) : j < k
       /\ testRun.todoId => Recorded("create", TRUE) # {}

C39_Witness ==
  /\ testRun.pc = "done"
  /\ testRun.leftover
  /\ "read" \in apiPasses
  /\ Recorded("create", FALSE) # {}
  /\ Recorded("read", FALSE) # {}

====
